---- MODULE Spec2Model ----
(***************************************************************************)
(* Data-quality scoring engine (data-quality-functions.js) and the         *)
(* composite DQS weighting engine (computeDQS).                             *)
(*                                                                         *)
(* JavaScript numbers are modelled as exact rationals [k, n, d] with the   *)
(* two non-rational outcomes the code can produce, NaN and undefined, kept *)
(* as separate kinds.  Strings are sequences of one-character strings, so  *)
(* that trim, toLowerCase, includes and length are computed, not assumed.  *)
(* Times (Date.getTime) are counted in whole minutes since the epoch.      *)
(***************************************************************************)
EXTENDS Integers, Sequences, FiniteSets, TLC

VARIABLES rows, now, metadata, dimensions, weights, result, gemini, explanation,
          page, fetches, LAST_PROFILE, uploads, scoreCalls, pc

vars == <<rows, now, metadata, dimensions, weights, result, gemini, explanation,
          page, fetches, LAST_PROFILE, uploads, scoreCalls, pc>>

(***************************************************************************)
(* Bounds of the model.                                                    *)
(***************************************************************************)
MaxRows == 2

ScoreLevels == 2

(***************************************************************************)
(* JavaScript numbers.                                                     *)
(***************************************************************************)
RECURSIVE GCD(_, _)
GCD(a, b) == IF b = 0 THEN a ELSE GCD(b, a % b)

AbsInt(i) == IF i < 0 THEN -i ELSE i

Num(n, d) ==
  LET s == IF d < 0 THEN -1 ELSE 1
      g == GCD(AbsInt(n), AbsInt(d))
  IN  [k |-> "num", n |-> (s * n) \div g, d |-> (s * d) \div g]

Whole(i) == [k |-> "num", n |-> i, d |-> 1]

NaN == [k |-> "nan", n |-> 0, d |-> 1]

Undefined == [k |-> "undef", n |-> 0, d |-> 1]

NotANumberString == [k |-> "str", n |-> 0, d |-> 1]

IsNum(x) == x.k = "num"

TypeofNumber(x) == x.k \in {"num", "nan"}

LCM(a, b) == (a \div GCD(a, b)) * b

JAdd(a, b) ==
  IF IsNum(a) /\ IsNum(b)
    THEN LET l == LCM(a.d, b.d)
         IN  Num(a.n * (l \div a.d) + b.n * (l \div b.d), l)
    ELSE NaN

Negate(x) == IF IsNum(x) THEN [k |-> "num", n |-> -x.n, d |-> x.d] ELSE NaN

JSub(a, b) == JAdd(a, Negate(b))

JMul(a, b) ==
  IF IsNum(a) /\ IsNum(b)
    THEN LET g == GCD(AbsInt(a.n), b.d)
             h == GCD(AbsInt(b.n), a.d)
         IN  Num((a.n \div g) * (b.n \div h), (a.d \div h) * (b.d \div g))
    ELSE NaN

\* Only used where the code has checked the divisor to be non-zero.
JDiv(a, b) ==
  IF IsNum(a) /\ IsNum(b)
    THEN JMul(a, Num(b.d, b.n))
    ELSE NaN

JLt(a, b) ==
  /\ IsNum(a)
  /\ IsNum(b)
  /\ LET l == LCM(a.d, b.d) IN a.n * (l \div a.d) < b.n * (l \div b.d)

JGt(a, b) == JLt(b, a)

JLe(a, b) == IsNum(a) /\ IsNum(b) /\ ~JLt(b, a)

JGe(a, b) == JLe(b, a)

Truthy(x) == IsNum(x) /\ x.n # 0

OrZero(x) == IF Truthy(x) THEN x ELSE Whole(0)

MathRound(x) ==
  IF IsNum(x) THEN Whole((2 * x.n + x.d) \div (2 * x.d)) ELSE NaN

MathMax(a, b) ==
  IF IsNum(a) /\ IsNum(b) THEN (IF JLt(a, b) THEN b ELSE a) ELSE NaN

MathMin(a, b) ==
  IF IsNum(a) /\ IsNum(b) THEN (IF JLt(b, a) THEN b ELSE a) ELSE NaN

MathAbs(x) == IF IsNum(x) THEN Num(AbsInt(x.n), x.d) ELSE NaN

Clamp(x) == MathMax(Whole(0), MathMin(Whole(100), x))

(***************************************************************************)
(* JavaScript strings.                                                     *)
(***************************************************************************)
UpperAlphabet ==
  <<"A", "B", "C", "D", "E", "F", "G", "H", "I", "J", "K", "L", "M",
    "N", "O", "P", "Q", "R", "S", "T", "U", "V", "W", "X", "Y", "Z">>

LowerAlphabet ==
  <<"a", "b", "c", "d", "e", "f", "g", "h", "i", "j", "k", "l", "m",
    "n", "o", "p", "q", "r", "s", "t", "u", "v", "w", "x", "y", "z">>

LowerChar(c) ==
  IF \E i \in 1..26 : UpperAlphabet[i] = c
    THEN LowerAlphabet[CHOOSE i \in 1..26 : UpperAlphabet[i] = c]
    ELSE c

ToLowerCase(s) == [i \in 1..Len(s) |-> LowerChar(s[i])]

IsSpace(c) == c = " "

RECURSIVE TrimStart(_)
TrimStart(s) ==
  IF s # <<>> /\ IsSpace(Head(s)) THEN TrimStart(Tail(s)) ELSE s

RECURSIVE TrimEnd(_)
TrimEnd(s) ==
  IF s # <<>> /\ IsSpace(s[Len(s)]) THEN TrimEnd(SubSeq(s, 1, Len(s) - 1)) ELSE s

Trim(s) == TrimEnd(TrimStart(s))

Includes(s, kw) ==
  \E i \in 0..(Len(s) - Len(kw)) : SubSeq(s, i + 1, i + Len(kw)) = kw

(***************************************************************************)
(* Dates: new Date(string).getTime(), in minutes.  A string of four digits *)
(* is the ISO year form and parses to 1 January of that year, 00:00 UTC;   *)
(* the other strings of the model do not parse (Invalid Date, NaN).        *)
(***************************************************************************)
Digits == <<"0", "1", "2", "3", "4", "5", "6", "7", "8", "9">>

IsDigit(c) == \E i \in 1..10 : Digits[i] = c

DigitValue(c) == (CHOOSE i \in 1..10 : Digits[i] = c) - 1

LeapDaysBefore(y) == ((y - 1) \div 4) - ((y - 1) \div 100) + ((y - 1) \div 400)

DaysFromEpoch(y) == 365 * (y - 1970) + LeapDaysBefore(y) - LeapDaysBefore(1970)

MinutesPerHour == 60

DateParse(s) ==
  IF Len(s) = 4 /\ \A i \in 1..4 : IsDigit(s[i])
    THEN Whole(DaysFromEpoch(1000 * DigitValue(s[1]) + 100 * DigitValue(s[2])
                           + 10 * DigitValue(s[3]) + DigitValue(s[4]))
             * 24 * MinutesPerHour)
    ELSE NaN

(***************************************************************************)
(* Rows: a row object is the sequence of its <<key, value>> entries in     *)
(* insertion order; a key that is absent reads as undefined.               *)
(***************************************************************************)
ObjectKeys(row) == [i \in 1..Len(row) |-> row[i][1]]

HasKey(row, col) == \E i \in 1..Len(row) : row[i][1] = col

Lookup(row, col) == row[CHOOSE i \in 1..Len(row) : row[i][1] = col][2]

NonEmptyCell_MissingCounts(row, col) ==
  IF HasKey(row, col) THEN Trim(Lookup(row, col)) # <<>> ELSE TRUE

\* value !== null && value !== undefined && String(value).trim() !== ''
NonEmptyCell(row, col) == HasKey(row, col) /\ Trim(Lookup(row, col)) # <<>>

\* String(row[col] || '').trim()
TrimmedOrEmpty(row, col) ==
  IF HasKey(row, col) THEN Trim(Lookup(row, col)) ELSE <<>>

Columns(rs) == IF rs = <<>> THEN <<>> ELSE ObjectKeys(rs[1])

\* The sum is exact, so it is taken by halves to keep the evaluation shallow.
RECURSIVE SumNums(_)
SumNums(seq) ==
  IF seq = <<>> THEN Whole(0)
  ELSE IF Len(seq) = 1 THEN JAdd(Whole(0), seq[1])
  ELSE LET half == Len(seq) \div 2
       IN  JAdd(SumNums(SubSeq(seq, 1, half)), SumNums(SubSeq(seq, half + 1, Len(seq))))

Filter(seq, keep) == SelectSeq(seq, LAMBDA x : x \in keep)

\* rows.map(row => String(row[col] || '').trim()).filter(val => val !== '')
ColumnValues(rs, col) ==
  LET mapped == [i \in 1..Len(rs) |-> TrimmedOrEmpty(rs[i], col)]
  IN  Filter(mapped, {mapped[i] : i \in 1..Len(mapped)} \ {<<>>})

(***************************************************************************)
(* The five dimension calculators.                                         *)
(***************************************************************************)
CountNonEmpty_NoTrim(rs, cols) ==
  Cardinality({<<i, j>> \in (1..Len(rs)) \X (1..Len(cols)) :
                 HasKey(rs[i], cols[j]) /\ Lookup(rs[i], cols[j]) # <<>>})

CountNonEmpty(rs, cols) ==
  Cardinality({<<i, j>> \in (1..Len(rs)) \X (1..Len(cols)) :
                 NonEmptyCell(rs[i], cols[j])})

computeCompleteness(rs) ==
  IF Len(rs) = 0 THEN Whole(0)
  ELSE LET columns == Columns(rs)
           totalCells == Len(rs) * Len(columns)
           nonEmptyCells == CountNonEmpty(rs, columns)
       IN  IF Len(columns) = 0 THEN Whole(0)
           ELSE IF totalCells = 0 THEN Whole(0)
           ELSE Clamp(MathRound(JMul(JDiv(Whole(nonEmptyCells), Whole(totalCells)),
                                     Whole(100))))

columnUniqueness_EmptyZero(rs, col) ==
  LET values == ColumnValues(rs, col)
      uniqueValues == {values[i] : i \in 1..Len(values)}
  IN  IF Len(values) = 0 THEN Whole(0)
      ELSE JMul(JDiv(Whole(Cardinality(uniqueValues)), Whole(Len(values))),
                Whole(100))

columnUniqueness(rs, col) ==
  LET values == ColumnValues(rs, col)
      uniqueValues == {values[i] : i \in 1..Len(values)}
  IN  IF Len(values) = 0 THEN Whole(100)
      ELSE JMul(JDiv(Whole(Cardinality(uniqueValues)), Whole(Len(values))),
                Whole(100))

computeUniqueness_Floor(rs) ==
  IF Len(rs) = 0 THEN Whole(0)
  ELSE LET columns == Columns(rs)
           totalUniqueness ==
             SumNums([j \in 1..Len(columns) |-> columnUniqueness(rs, columns[j])])
           mean == JDiv(totalUniqueness, Whole(Len(columns)))
       IN  IF Len(columns) = 0 THEN Whole(0)
           ELSE Clamp(Whole(mean.n \div mean.d))

computeUniqueness(rs) ==
  IF Len(rs) = 0 THEN Whole(0)
  ELSE LET columns == Columns(rs)
           totalUniqueness ==
             SumNums([j \in 1..Len(columns) |-> columnUniqueness(rs, columns[j])])
           columnCount == Len(columns)
       IN  IF Len(columns) = 0 THEN Whole(0)
           ELSE IF columnCount = 0 THEN Whole(0)
           ELSE Clamp(MathRound(JDiv(totalUniqueness, Whole(columnCount))))

columnConsistency(rs, col) ==
  LET values == ColumnValues(rs, col)
      lengths == [i \in 1..Len(values) |-> Whole(Len(values[i]))]
      avgLength == JDiv(SumNums(lengths), Whole(Len(lengths)))
      deviations == [i \in 1..Len(lengths) |-> MathAbs(JSub(lengths[i], avgLength))]
      avgDeviation == JDiv(SumNums(deviations), Whole(Len(deviations)))
      maxDeviation == MathMax(avgLength, Whole(1))
  IN  IF Len(values) = 0 THEN Whole(100)
      ELSE IF Len(values) = 1 THEN Whole(100)
      ELSE MathMax(Whole(0),
                   JSub(Whole(100),
                        JMul(JDiv(avgDeviation, maxDeviation), Whole(100))))

computeConsistency_NoRound(rs) ==
  IF Len(rs) = 0 THEN Whole(0)
  ELSE LET columns == Columns(rs)
           totalConsistency ==
             SumNums([j \in 1..Len(columns) |-> columnConsistency(rs, columns[j])])
       IN  IF Len(columns) = 0 THEN Whole(0)
           ELSE Clamp(JDiv(totalConsistency, Whole(Len(columns))))

computeConsistency(rs) ==
  IF Len(rs) = 0 THEN Whole(0)
  ELSE LET columns == Columns(rs)
           totalConsistency ==
             SumNums([j \in 1..Len(columns) |-> columnConsistency(rs, columns[j])])
           columnCount == Len(columns)
       IN  IF Len(columns) = 0 THEN Whole(0)
           ELSE IF columnCount = 0 THEN Whole(0)
           ELSE Clamp(MathRound(JDiv(totalConsistency, Whole(columnCount))))

computeValidity_LastColumn(rs) ==
  IF Len(rs) = 0 THEN Whole(0)
  ELSE LET columns == Columns(rs)
           keyColumn == columns[Len(columns)]
           validRows == {i \in 1..Len(rs) : NonEmptyCell(rs[i], keyColumn)}
       IN  IF Len(columns) = 0 THEN Whole(0)
           ELSE Clamp(MathRound(JMul(JDiv(Whole(Cardinality(validRows)),
                                          Whole(Len(rs))),
                                     Whole(100))))

computeValidity(rs) ==
  IF Len(rs) = 0 THEN Whole(0)
  ELSE LET columns == Columns(rs)
           keyColumn == columns[1]
           validRows == {i \in 1..Len(rs) : NonEmptyCell(rs[i], keyColumn)}
       IN  IF Len(columns) = 0 THEN Whole(0)
           ELSE Clamp(MathRound(JMul(JDiv(Whole(Cardinality(validRows)),
                                          Whole(Len(rs))),
                                     Whole(100))))

dateKeywords ==
  << <<"d", "a", "t", "e">>,
     <<"t", "i", "m", "e">>,
     <<"t", "i", "m", "e", "s", "t", "a", "m", "p">>,
     <<"c", "r", "e", "a", "t", "e", "d">>,
     <<"u", "p", "d", "a", "t", "e", "d">>,
     <<"m", "o", "d", "i", "f", "i", "e", "d">> >>

IsDateColumnName(col) ==
  \E q \in 1..Len(dateKeywords) : Includes(ToLowerCase(col), dateKeywords[q])

DateColumnIndex_DefaultFirst(columns) ==
  IF \E j \in 1..Len(columns) : IsDateColumnName(columns[j])
    THEN CHOOSE j \in 1..Len(columns) :
           /\ IsDateColumnName(columns[j])
           /\ \A h \in 1..(j - 1) : ~IsDateColumnName(columns[h])
    ELSE 1

\* The first column, in key order, whose lower-cased name holds a keyword;
\* 0 when there is none (dateColumn stays null).
DateColumnIndex(columns) ==
  IF \E j \in 1..Len(columns) : IsDateColumnName(columns[j])
    THEN CHOOSE j \in 1..Len(columns) :
           /\ IsDateColumnName(columns[j])
           /\ \A h \in 1..(j - 1) : ~IsDateColumnName(columns[h])
    ELSE 0

\* The ages (in minutes) of the rows whose date value is non-empty and parses.
RowAges(rs, dateColumn, t) ==
  LET parsed == [i \in 1..Len(rs) |-> DateParse(TrimmedOrEmpty(rs[i], dateColumn))]
      ages == [i \in 1..Len(rs) |-> JSub(Whole(t), parsed[i])]
  IN  Filter(ages, {ages[i] : i \in {h \in 1..Len(rs) :
                                       /\ TrimmedOrEmpty(rs[h], dateColumn) # <<>>
                                       /\ IsNum(parsed[h])}})

ScoreForAge_Rising(avgAgeHours) ==
  IF JLt(avgAgeHours, Whole(1)) THEN Whole(30)
  ELSE IF JLt(avgAgeHours, Whole(6)) THEN Whole(50)
  ELSE IF JLt(avgAgeHours, Whole(24)) THEN Whole(70)
  ELSE IF JLt(avgAgeHours, Whole(72)) THEN Whole(85)
  ELSE IF JLt(avgAgeHours, Whole(168)) THEN Whole(95)
  ELSE Whole(100)

ScoreForAge_Inclusive(avgAgeHours) ==
  IF JLe(avgAgeHours, Whole(1)) THEN Whole(100)
  ELSE IF JLe(avgAgeHours, Whole(6)) THEN Whole(95)
  ELSE IF JLe(avgAgeHours, Whole(24)) THEN Whole(85)
  ELSE IF JLe(avgAgeHours, Whole(72)) THEN Whole(70)
  ELSE IF JLe(avgAgeHours, Whole(168)) THEN Whole(50)
  ELSE Whole(30)

ScoreForAge(avgAgeHours) ==
  IF JLt(avgAgeHours, Whole(1)) THEN Whole(100)
  ELSE IF JLt(avgAgeHours, Whole(6)) THEN Whole(95)
  ELSE IF JLt(avgAgeHours, Whole(24)) THEN Whole(85)
  ELSE IF JLt(avgAgeHours, Whole(72)) THEN Whole(70)
  ELSE IF JLt(avgAgeHours, Whole(168)) THEN Whole(50)
  ELSE Whole(30)

computeTimeliness_ZeroWhenEmpty(rs, t) ==
  IF Len(rs) = 0 THEN Whole(0)
  ELSE LET columns == Columns(rs)
           dateIndex == DateColumnIndex(columns)
           ages == RowAges(rs, columns[dateIndex], t)
           validDates == Len(ages)
           totalAgeHours == JDiv(SumNums(ages), Whole(MinutesPerHour))
           avgAgeHours == JDiv(totalAgeHours, Whole(validDates))
       IN  IF Len(columns) = 0 THEN Whole(0)
           ELSE IF dateIndex = 0 THEN Whole(50)
           ELSE IF validDates = 0 THEN Whole(50)
           ELSE ScoreForAge(avgAgeHours)

computeTimeliness(rs, t) ==
  IF Len(rs) = 0 THEN Whole(50)
  ELSE LET columns == Columns(rs)
           dateIndex == DateColumnIndex(columns)
           ages == RowAges(rs, columns[dateIndex], t)
           validDates == Len(ages)
           totalAgeHours == JDiv(SumNums(ages), Whole(MinutesPerHour))
           avgAgeHours == JDiv(totalAgeHours, Whole(validDates))
       IN  IF Len(columns) = 0 THEN Whole(50)
           ELSE IF dateIndex = 0 THEN Whole(50)
           ELSE IF validDates = 0 THEN Whole(50)
           ELSE ScoreForAge(avgAgeHours)

DimKeys == {"completeness", "uniqueness", "consistency", "validity", "timeliness"}

computeAllScores(rs, t) ==
  [key \in DimKeys |->
     CASE key = "completeness" -> computeCompleteness(rs)
       [] key = "uniqueness" -> computeUniqueness(rs)
       [] key = "consistency" -> computeConsistency(rs)
       [] key = "validity" -> computeValidity(rs)
       [] key = "timeliness" -> computeTimeliness(rs, t)]

(***************************************************************************)
(* Objects: a function from the keys present to their values.  A reference *)
(* is either null/undefined or an object.                                  *)
(***************************************************************************)
EmptyObject == [key \in {} |-> Undefined]

Get(obj, key) == IF key \in DOMAIN obj THEN obj[key] ELSE Undefined

Set(obj, key, v) ==
  [h \in (DOMAIN obj) \cup {key} |-> IF h = key THEN v ELSE obj[h]]

Ref(obj) == [null |-> FALSE, props |-> obj]

NullRef == [null |-> TRUE, props |-> EmptyObject]

(***************************************************************************)
(* The composite weighting engine.                                         *)
(***************************************************************************)
DEFAULT_WEIGHTS ==
  [key \in DimKeys |->
     CASE key = "completeness" -> Num(25, 100)
       [] key = "uniqueness" -> Num(20, 100)
       [] key = "consistency" -> Num(15, 100)
       [] key = "validity" -> Num(25, 100)
       [] key = "timeliness" -> Num(15, 100)]

required == <<"completeness", "uniqueness", "consistency", "validity">>

InvalidScore(v) ==
  ~TypeofNumber(v) \/ JLt(v, Whole(0)) \/ JGt(v, Whole(100))

\* for (const key of required) if (invalid) dimensions[key] = 0
RECURSIVE ValidateRequired(_, _)
ValidateRequired(obj, i) ==
  IF i > Len(required) THEN obj
  ELSE ValidateRequired(
         IF InvalidScore(Get(obj, required[i]))
           THEN Set(obj, required[i], Whole(0)) ELSE obj,
         i + 1)

HasTimeliness(obj) ==
  LET v == Get(obj, "timeliness")
  IN  TypeofNumber(v) /\ JGe(v, Whole(0)) /\ JLe(v, Whole(100))

\* obj[key] *= factor, for each key of keys
RECURSIVE ScaleKeys(_, _, _)
ScaleKeys(obj, keys, factor) ==
  IF keys = <<>> THEN obj
  ELSE ScaleKeys(Set(obj, Head(keys), JMul(Get(obj, Head(keys)), factor)),
                 Tail(keys), factor)

ActiveKeys(hasTimeliness) ==
  IF hasTimeliness THEN Append(required, "timeliness") ELSE required

Tolerance == Num(1, 1000)

RedistributeWeights_NoScale(w, otherWeights, timelinessWeight) == w

\* Scale the four required weights by (otherWeights + timelinessWeight) / otherWeights.
RedistributeWeights(w, otherWeights, timelinessWeight) ==
  ScaleKeys(w, required, JDiv(JAdd(otherWeights, timelinessWeight), otherWeights))

NeedsNormalize_Never(totalWeight) == FALSE

\* totalWeight > 0 && Math.abs(totalWeight - 1.0) > 0.001
NeedsNormalize(totalWeight) ==
  /\ JGt(totalWeight, Whole(0))
  /\ JGt(MathAbs(JSub(totalWeight, Whole(1))), Tolerance)

\* The argument object after the call (arg), and the value returned (ret).
computeDQS(dims, w) ==
  IF dims.null
    THEN [arg |-> dims, ret |-> [dimensions |-> EmptyObject, DQS |-> Whole(0)]]
  ELSE
    LET validated == ValidateRequired(dims.props, 1)
        hasTimeliness == HasTimeliness(validated)
        active == ActiveKeys(hasTimeliness)
        total0 == SumNums([i \in 1..Len(active) |-> OrZero(Get(w, active[i]))])
        timelinessWeight == Get(w, "timeliness")
        redistribute ==
          ~hasTimeliness /\ Truthy(timelinessWeight) /\ JGt(total0, Whole(0))
        w1 == IF redistribute
                THEN RedistributeWeights(w, total0, timelinessWeight) ELSE w
        total1 == IF redistribute THEN JAdd(total0, timelinessWeight) ELSE total0
        normalize == NeedsNormalize(total1)
        w2 == IF normalize
                THEN ScaleKeys(w1, active, JDiv(Whole(1), total1)) ELSE w1
        totalWeight == IF normalize THEN Whole(1) ELSE total1
        weightedSum ==
          SumNums([i \in 1..Len(active) |->
                     JMul(Get(validated, active[i]), Get(w2, active[i]))])
        DQS == MathRound(weightedSum)
    IN  [arg |-> Ref(validated),
         ret |-> [dimensions |-> validated,
                  DQS |-> IF totalWeight = Whole(0) THEN Whole(0) ELSE Clamp(DQS)]]

(***************************************************************************)
(* IEEE 754 binary64, the arithmetic in which JavaScript evaluates the     *)
(* number operators of computeDQS.  A finite value is s * m * 2^e, with s  *)
(* the sign and m zero or a natural number of exactly 53 bits; m is kept   *)
(* as a sequence of limbs, least significant first, because it does not    *)
(* fit a 32-bit integer.  Every operation rounds its exact                 *)
(* result to the nearest value, ties to the even mantissa.  The exponent   *)
(* range is not modelled: the weights and scores of the engine stay far    *)
(* from overflow and from the subnormal numbers.                           *)
(***************************************************************************)
LimbBits == 14

Limb == 2^LimbBits

Precision == 53

RECURSIVE BNorm(_)
BNorm(a) ==
  IF a = <<>> THEN <<>>
  ELSE IF a[Len(a)] = 0 THEN BNorm(SubSeq(a, 1, Len(a) - 1)) ELSE a

RECURSIVE BFromInt(_)
BFromInt(n) == IF n = 0 THEN <<>> ELSE <<n % Limb>> \o BFromInt(n \div Limb)

RECURSIVE BToInt(_)
BToInt(a) == IF a = <<>> THEN 0 ELSE a[1] + Limb * BToInt(Tail(a))

BLimb(a, i) == IF i <= Len(a) THEN a[i] ELSE 0

Zeros(n) == [i \in 1..n |-> 0]

RECURSIVE BAddFrom(_, _, _, _)
BAddFrom(a, b, i, carry) ==
  IF i > Len(a) /\ i > Len(b)
    THEN (IF carry = 0 THEN <<>> ELSE <<carry>>)
  ELSE LET t == BLimb(a, i) + BLimb(b, i) + carry
       IN  <<t % Limb>> \o BAddFrom(a, b, i + 1, t \div Limb)

BAdd(a, b) == BNorm(BAddFrom(a, b, 1, 0))

RECURSIVE BSubFrom(_, _, _, _)
BSubFrom(a, b, i, borrow) ==
  IF i > Len(a) THEN <<>>
  ELSE LET t == a[i] - BLimb(b, i) - borrow
       IN  <<IF t < 0 THEN t + Limb ELSE t>> \o
           BSubFrom(a, b, i + 1, IF t < 0 THEN 1 ELSE 0)

\* a - b, for a >= b
BSub(a, b) == BNorm(BSubFrom(a, b, 1, 0))

RECURSIVE BCmpFrom(_, _, _)
BCmpFrom(a, b, i) ==
  IF i = 0 THEN 0
  ELSE IF a[i] # b[i] THEN (IF a[i] < b[i] THEN -1 ELSE 1)
  ELSE BCmpFrom(a, b, i - 1)

\* -1, 0 or 1 as a is below, equal to or above b
BCmp(a, b) ==
  IF Len(a) # Len(b) THEN (IF Len(a) < Len(b) THEN -1 ELSE 1)
  ELSE BCmpFrom(a, b, Len(a))

RECURSIVE BMulSmallFrom(_, _, _, _)
BMulSmallFrom(a, f, i, carry) ==
  IF i > Len(a) THEN (IF carry = 0 THEN <<>> ELSE <<carry>>)
  ELSE LET t == a[i] * f + carry
       IN  <<t % Limb>> \o BMulSmallFrom(a, f, i + 1, t \div Limb)

\* a * f, for f below Limb
BMulSmall(a, f) == IF f = 0 THEN <<>> ELSE BMulSmallFrom(a, f, 1, 0)

RECURSIVE BMulFrom(_, _, _)
BMulFrom(a, b, i) ==
  IF i > Len(b) THEN <<>>
  ELSE BAdd(Zeros(i - 1) \o BMulSmall(a, b[i]), BMulFrom(a, b, i + 1))

BMul(a, b) == BMulFrom(a, b, 1)

\* a * 2^n
BShl(a, n) ==
  IF a = <<>> THEN <<>>
  ELSE Zeros(n \div LimbBits) \o BMulSmall(a, 2^(n % LimbBits))

RECURSIVE BDivSmallFrom(_, _, _, _)
BDivSmallFrom(a, f, i, rem) ==
  IF i = 0 THEN <<>>
  ELSE LET cur == rem * Limb + a[i]
       IN  BDivSmallFrom(a, f, i - 1, cur % f) \o <<cur \div f>>

\* floor(a / 2^n)
BShr(a, n) ==
  LET d == n \div LimbBits
  IN  IF d >= Len(a) THEN <<>>
      ELSE BNorm(BDivSmallFrom(SubSeq(a, d + 1, Len(a)), 2^(n % LimbBits),
                               Len(a) - d, 0))

RECURSIVE BitsOfLimb(_)
BitsOfLimb(x) == IF x = 0 THEN 0 ELSE 1 + BitsOfLimb(x \div 2)

\* The number of bits of a.
BBits(a) ==
  IF a = <<>> THEN 0 ELSE LimbBits * (Len(a) - 1) + BitsOfLimb(a[Len(a)])

\* The largest digit g in lo..hi with d * g <= cur, by bisection.
RECURSIVE BDigit(_, _, _, _)
BDigit(cur, d, lo, hi) ==
  IF lo = hi THEN lo
  ELSE LET mid == (lo + hi + 1) \div 2
       IN  IF BCmp(BMulSmall(d, mid), cur) <= 0
             THEN BDigit(cur, d, mid, hi)
           ELSE BDigit(cur, d, lo, mid - 1)

\* One step of long division: the limb is brought down to the remainder r
\* of the limbs above it, and the quotient above gains the digit of cur by d.
BDivDigit(cur, d, q, g) ==
  [q |-> BNorm(<<g>> \o q), r |-> BSub(cur, BMulSmall(d, g))]

BDivStep(cur, d, q) ==
  BDivDigit(cur, d, q, IF BCmp(cur, d) < 0 THEN 0 ELSE BDigit(cur, d, 1, Limb - 1))

BDivAbove(n, d, i, above) == BDivStep(BNorm(<<n[i]>> \o above.r), d, above.q)

\* Long division, one limb of n at a time: quotient and remainder of the
\* limbs i, i + 1, ... of n by d.
RECURSIVE BDivFrom(_, _, _)
BDivFrom(n, d, i) ==
  IF i > Len(n) THEN [q |-> <<>>, r |-> <<>>]
  ELSE BDivAbove(n, d, i, BDivFrom(n, d, i + 1))

\* Quotient and remainder of n by d, d not zero.
BDivMod(n, d) == BDivFrom(n, d, 1)

Zero64 == [k |-> "num", s |-> 1, m |-> <<>>, e |-> 0]

NaN64 == [k |-> "nan", s |-> 1, m |-> <<>>, e |-> 0]

IsNum64(x) == x.k = "num"

IsZero64(x) == IsNum64(x) /\ x.m = <<>>

\* A significand of 53 or, after a carry, 54 bits.
Carried64(s, q, e) ==
  IF BBits(q) > Precision
    THEN [k |-> "num", s |-> s, m |-> BShr(q, 1), e |-> e + 1]
  ELSE [k |-> "num", s |-> s, m |-> q, e |-> e]

\* q is n without its last drop bits, rest the value of those bits: up when
\* rest is above half, or is half and q is odd or lower bits were lost.
RoundUp64(q, rest, half, sticky) ==
  IF BCmp(rest, half) > 0 \/ (BCmp(rest, half) = 0 /\ (sticky \/ q[1] % 2 = 1))
    THEN BAdd(q, <<1>>) ELSE q

Dropped64(s, n, e, sticky, drop, q) ==
  Carried64(s, RoundUp64(q, BSub(n, BShl(q, drop)), BShl(<<1>>, drop - 1), sticky),
            e + drop)

Sized64(s, n, e, sticky, len) ==
  IF len <= Precision
    THEN [k |-> "num", s |-> s, m |-> BShl(n, Precision - len),
          e |-> e - (Precision - len)]
  ELSE Dropped64(s, n, e, sticky, len - Precision, BShr(n, len - Precision))

\* s * n * 2^e rounded to 53 bits; sticky tells that bits below n were lost.
Round64(s, n, e, sticky) ==
  IF n = <<>> THEN Zero64 ELSE Sized64(s, n, e, sticky, BBits(n))

FromInt64(i) == Round64(IF i < 0 THEN -1 ELSE 1, BFromInt(AbsInt(i)), 0, FALSE)

One64 == [k |-> "num", s |-> 1, m |-> BShl(<<1>>, Precision - 1), e |-> 1 - Precision]

Neg64(a) == IF IsNum64(a) /\ a.m # <<>> THEN [a EXCEPT !.s = -a.s] ELSE a

Abs64(a) == [a EXCEPT !.s = 1]

\* -1, 0 or 1 as |a| is below, equal to or above |b|
CmpMag64(a, b) ==
  IF a.m = <<>> \/ b.m = <<>>
    THEN (IF a.m = b.m THEN 0 ELSE IF a.m = <<>> THEN -1 ELSE 1)
  ELSE IF a.e # b.e THEN (IF a.e < b.e THEN -1 ELSE 1)
  ELSE BCmp(a.m, b.m)

\* The significands am and bm of a and b at the common exponent e0: the sum
\* for equal signs, otherwise the difference with the sign of the larger.
AddAligned64(a, b, am, bm, e0) ==
  Round64(IF a.s = b.s \/ BCmp(am, bm) > 0 THEN a.s ELSE b.s,
          IF a.s = b.s THEN BAdd(am, bm)
          ELSE IF BCmp(am, bm) >= 0 THEN BSub(am, bm) ELSE BSub(bm, am),
          e0, FALSE)

AddAt64(a, b, e0) == AddAligned64(a, b, BShl(a.m, a.e - e0), BShl(b.m, b.e - e0), e0)

Add64(a, b) ==
  IF ~IsNum64(a) \/ ~IsNum64(b) THEN NaN64
  ELSE IF a.m = <<>> THEN b
  ELSE IF b.m = <<>> THEN a
  ELSE AddAt64(a, b, IF a.e < b.e THEN a.e ELSE b.e)

Sub64(a, b) == Add64(a, Neg64(b))

Mul64(a, b) ==
  IF ~IsNum64(a) \/ ~IsNum64(b) THEN NaN64
  ELSE Round64(a.s * b.s, BMul(a.m, b.m), a.e + b.e, FALSE)

Quotient64(s, qr, e) == Round64(s, qr.q, e, qr.r # <<>>)

\* a / b; the divisions of the engine are guarded against a zero divisor
\* (lines 896 and 909), so Infinity is not modelled.
Div64(a, b) ==
  IF ~IsNum64(a) \/ ~IsNum64(b) \/ b.m = <<>> THEN NaN64
  ELSE Quotient64(a.s * b.s, BDivMod(BShl(a.m, Precision + 2), b.m),
                  a.e - b.e - (Precision + 2))

Sign64(a) == IF a.m = <<>> THEN 0 ELSE a.s

Gt64(a, b) ==
  /\ IsNum64(a) /\ IsNum64(b)
  /\ IF Sign64(a) # Sign64(b) THEN Sign64(a) > Sign64(b)
     ELSE Sign64(a) * CmpMag64(a, b) > 0

Truthy64(x) == IsNum64(x) /\ x.m # <<>>

OrZero64(x) == IF Truthy64(x) THEN x ELSE Zero64

\* The binary64 value of a number literal or of a parsed JSON number: the
\* value nearest to n/d.
ToDouble(x) ==
  IF ~IsNum(x) THEN NaN64
  ELSE IF x.d = 1 THEN FromInt64(x.n)
  ELSE Div64(FromInt64(x.n), FromInt64(x.d))

\* The integer part q of |x| and whether the rest is below, equal to or
\* above one half (c): a tie goes up, which is down in magnitude for x < 0.
Nearest64(s, q, c) ==
  IF s = 1 THEN Whole(BToInt(q) + (IF c >= 0 THEN 1 ELSE 0))
  ELSE Whole(-(BToInt(q) + (IF c > 0 THEN 1 ELSE 0)))

Halves64(x, q) ==
  Nearest64(x.s, q, BCmp(BSub(x.m, BShl(q, -x.e)), BShl(<<1>>, -x.e - 1)))

\* Math.round: the integer nearest to x, a tie going up.
MathRound64(x) ==
  IF ~IsNum64(x) THEN NaN
  ELSE IF x.e >= 0 THEN Whole(x.s * BToInt(BShl(x.m, x.e)))
  ELSE Halves64(x, BShr(x.m, -x.e))

RECURSIVE Sum64(_, _, _)
Sum64(seq, i, acc) ==
  IF i > Len(seq) THEN acc ELSE Sum64(seq, i + 1, Add64(acc, seq[i]))

\* totalWeight += normalizedWeights.x || 0, for each active x
TotalWeight64(nw, active) ==
  Sum64([i \in 1..Len(active) |-> OrZero64(nw[active[i]])], 1, Zero64)

\* normalizedWeights.x *= factor, for each x of keys
ScaleKeys64(nw, keys, factor) ==
  [key \in DOMAIN nw |->
     IF \E i \in 1..Len(keys) : keys[i] = key THEN Mul64(nw[key], factor)
     ELSE nw[key]]

\* Scale the four required weights by (otherWeights + timelinessWeight) / otherWeights.
RedistributeWeights64(nw, otherWeights, timelinessWeight) ==
  ScaleKeys64(nw, required, Div64(Add64(otherWeights, timelinessWeight), otherWeights))

\* totalWeight > 0 && Math.abs(totalWeight - 1.0) > 0.001
NeedsNormalize64(totalWeight) ==
  /\ Gt64(totalWeight, Zero64)
  /\ Gt64(Abs64(Sub64(totalWeight, One64)), ToDouble(Tolerance))

WeightedSum64_Complement(score, nw, active) ==
  Sum64([i \in 1..Len(active) |->
           Mul64(Sub64(FromInt64(100), score[active[i]]), nw[active[i]])],
        1, Zero64)

\* weightedSum += dimensions.x * normalizedWeights.x, for each active x
WeightedSum64(score, nw, active) ==
  Sum64([i \in 1..Len(active) |-> Mul64(score[active[i]], nw[active[i]])],
        1, Zero64)

\* The result for the final weights: 0 for a zero total, otherwise the
\* rounded and clamped weighted sum.
WeightedDQS64(validated, active, nw, totalWeight) ==
  IF IsZero64(totalWeight) THEN Whole(0)
  ELSE Clamp(MathRound64(
         WeightedSum64([key \in DimKeys |-> ToDouble(Get(validated, key))],
                       nw, active)))

\* The normalization step on the weights nw with total totalWeight.
NormalizedDQS64(validated, active, nw, totalWeight, normalize) ==
  WeightedDQS64(validated, active,
                IF normalize
                  THEN ScaleKeys64(nw, active, Div64(One64, totalWeight)) ELSE nw,
                IF normalize THEN One64 ELSE totalWeight)

\* The redistribution step on the weights nw with active total totalWeight.
RedistributedDQS64(validated, active, nw, totalWeight, redistribute) ==
  NormalizedDQS64(
    validated, active,
    IF redistribute
      THEN RedistributeWeights64(nw, totalWeight, nw["timeliness"]) ELSE nw,
    IF redistribute THEN Add64(totalWeight, nw["timeliness"]) ELSE totalWeight,
    NeedsNormalize64(IF redistribute THEN Add64(totalWeight, nw["timeliness"])
                     ELSE totalWeight))

ActiveDQS64(validated, hasTimeliness, nw, totalWeight) ==
  RedistributedDQS64(
    validated, ActiveKeys(hasTimeliness), nw, totalWeight,
    ~hasTimeliness /\ Truthy64(nw["timeliness"]) /\ Gt64(totalWeight, Zero64))

ValidatedDQS64(validated, nw) ==
  ActiveDQS64(validated, HasTimeliness(validated), nw,
              TotalWeight64(nw, ActiveKeys(HasTimeliness(validated))))

\* computeDQS with its arithmetic in binary64: the argument object after
\* the call (arg), and the value returned (ret).
computeDQS64(dims, w) ==
  IF dims.null
    THEN [arg |-> dims, ret |-> [dimensions |-> EmptyObject, DQS |-> Whole(0)]]
  ELSE [arg |-> Ref(ValidateRequired(dims.props, 1)),
        ret |-> [dimensions |-> ValidateRequired(dims.props, 1),
                 DQS |-> ValidatedDQS64(ValidateRequired(dims.props, 1),
                                        [key \in DimKeys |-> ToDouble(Get(w, key))])]]

(***************************************************************************)
(* The scoring engine of the backend (scoring-engine.ts): the calculators  *)
(* take the column list from the metadata, and timeliness is only scored   *)
(* for a detected date column.                                             *)
(***************************************************************************)
calculateCompleteness(rs, columns) ==
  IF Len(rs) = 0 \/ Len(columns) = 0 THEN Whole(0)
  ELSE LET totalCells == Len(rs) * Len(columns)
           nonEmptyCells == CountNonEmpty(rs, columns)
       IN  IF totalCells = 0 THEN Whole(0)
           ELSE MathRound(JMul(JDiv(Whole(nonEmptyCells), Whole(totalCells)),
                               Whole(100)))

calculateUniqueness(rs, columns) ==
  IF Len(rs) = 0 \/ Len(columns) = 0 THEN Whole(0)
  ELSE LET totalUniqueness ==
             SumNums([j \in 1..Len(columns) |-> columnUniqueness(rs, columns[j])])
           columnCount == Len(columns)
       IN  IF columnCount = 0 THEN Whole(0)
           ELSE MathRound(JDiv(totalUniqueness, Whole(columnCount)))

\* No single-value branch: one value has deviation 0 and scores 100 as well.
engineColumnConsistency_NoFloor(rs, col) ==
  LET values == ColumnValues(rs, col)
      lengths == [i \in 1..Len(values) |-> Whole(Len(values[i]))]
      avgLength == JDiv(SumNums(lengths), Whole(Len(lengths)))
      variance ==
        JDiv(SumNums([i \in 1..Len(lengths) |-> MathAbs(JSub(lengths[i], avgLength))]),
             Whole(Len(lengths)))
  IN  IF Len(values) = 0 THEN Whole(100)
      ELSE JSub(Whole(100),
                JMul(JDiv(variance, MathMax(avgLength, Whole(1))), Whole(100)))

engineColumnConsistency(rs, col) ==
  LET values == ColumnValues(rs, col)
      lengths == [i \in 1..Len(values) |-> Whole(Len(values[i]))]
      avgLength == JDiv(SumNums(lengths), Whole(Len(lengths)))
      variance ==
        JDiv(SumNums([i \in 1..Len(lengths) |-> MathAbs(JSub(lengths[i], avgLength))]),
             Whole(Len(lengths)))
  IN  IF Len(values) = 0 THEN Whole(100)
      ELSE MathMax(Whole(0),
                   JSub(Whole(100),
                        JMul(JDiv(variance, MathMax(avgLength, Whole(1))),
                             Whole(100))))

calculateConsistency(rs, columns) ==
  IF Len(rs) = 0 \/ Len(columns) = 0 THEN Whole(0)
  ELSE LET totalConsistency ==
             SumNums([j \in 1..Len(columns) |->
                        engineColumnConsistency(rs, columns[j])])
           columnCount == Len(columns)
       IN  IF columnCount = 0 THEN Whole(0)
           ELSE MathRound(JDiv(totalConsistency, Whole(columnCount)))

calculateValidity_LastColumn(rs, columns) ==
  IF Len(rs) = 0 THEN Whole(0)
  ELSE IF Len(columns) = 0 THEN Whole(0)
  ELSE LET keyColumn == columns[Len(columns)]
           validRows == {i \in 1..Len(rs) : TrimmedOrEmpty(rs[i], keyColumn) # <<>>}
       IN  MathRound(JMul(JDiv(Whole(Cardinality(validRows)), Whole(Len(rs))),
                          Whole(100)))

calculateValidity(rs, columns) ==
  IF Len(rs) = 0 THEN Whole(0)
  ELSE IF Len(columns) = 0 THEN Whole(0)
  ELSE LET keyColumn == columns[1]
           validRows == {i \in 1..Len(rs) : TrimmedOrEmpty(rs[i], keyColumn) # <<>>}
       IN  MathRound(JMul(JDiv(Whole(Cardinality(validRows)), Whole(Len(rs))),
                          Whole(100)))

calculateTimeliness(rs, dateColumnName, t) ==
  IF Len(rs) = 0 THEN Whole(0)
  ELSE LET ages == RowAges(rs, dateColumnName, t)
           validDates == Len(ages)
           totalAgeHours == JDiv(SumNums(ages), Whole(MinutesPerHour))
           avgAgeHours == JDiv(totalAgeHours, Whole(validDates))
       IN  IF validDates = 0 THEN Whole(50)
           ELSE ScoreForAge(avgAgeHours)

SampleSize == 10

\* rows.slice(0, Math.min(10, rows.length)).map(r => String(r[col] || "").trim())
SampleValues(rs, col) ==
  [i \in 1..(IF SampleSize < Len(rs) THEN SampleSize ELSE Len(rs)) |->
     TrimmedOrEmpty(rs[i], col)]

DateLikeCount(sampleValues) ==
  Cardinality({i \in 1..Len(sampleValues) :
                 sampleValues[i] # <<>> /\ IsNum(DateParse(sampleValues[i]))})

PassesValueTest_AtLeastHalf(rs, col) ==
  LET sampleValues == SampleValues(rs, col)
  IN  JGe(Whole(DateLikeCount(sampleValues)),
          JMul(Whole(Len(sampleValues)), Num(1, 2)))

\* dateLikeCount > sampleValues.length * 0.5
PassesValueTest(rs, col) ==
  LET sampleValues == SampleValues(rs, col)
  IN  JGt(Whole(DateLikeCount(sampleValues)),
          JMul(Whole(Len(sampleValues)), Num(1, 2)))

\* The result {found, columnName}; columnName is absent when nothing is found.
detectDateColumn(rs, columns) ==
  LET hits == {j \in 1..Len(columns) :
                 IsDateColumnName(columns[j]) /\ PassesValueTest(rs, columns[j])}
  IN  IF Len(rs) = 0 \/ hits = {}
        THEN [found |-> FALSE, columnName |-> <<>>]
        ELSE [found |-> TRUE,
              columnName |-> <<columns[CHOOSE j \in hits : \A h \in hits : j <= h]>>]

NoMetadata ==
  [columns |-> <<>>, rowCount |-> 0, columnCount |-> 0,
   hasDateColumn |-> FALSE, dateColumnName |-> <<>>]

prepareMetadata(rs) ==
  IF Len(rs) = 0 THEN NoMetadata
  ELSE LET columns == ObjectKeys(rs[1])
           dateInfo == detectDateColumn(rs, columns)
       IN  [columns |-> columns, rowCount |-> Len(rs), columnCount |-> Len(columns),
            hasDateColumn |-> dateInfo.found, dateColumnName |-> dateInfo.columnName]

\* hasDateColumn && dateColumnName: the name is present and not the empty string.
computeScores(rs, md, t) ==
  LET scores ==
        [key \in DimKeys \ {"timeliness"} |->
           CASE key = "completeness" -> calculateCompleteness(rs, md.columns)
             [] key = "uniqueness" -> calculateUniqueness(rs, md.columns)
             [] key = "consistency" -> calculateConsistency(rs, md.columns)
             [] key = "validity" -> calculateValidity(rs, md.columns)]
  IN  IF md.hasDateColumn /\ md.dateColumnName # <<>> /\ md.dateColumnName[1] # <<>>
        THEN Set(scores, "timeliness", calculateTimeliness(rs, md.dateColumnName[1], t))
        ELSE scores

calculateDQS_DivideByFive(scores) ==
  LET all == [i \in 1..5 |-> Get(scores, Append(required, "timeliness")[i])]
      dims == SelectSeq(all, LAMBDA v : v # Undefined)
  IN  IF Len(dims) = 0 THEN Whole(0)
      ELSE MathRound(JDiv(SumNums(dims), Whole(5)))

\* [..five scores..].filter(score => score !== undefined), then the rounded mean.
calculateDQS(scores) ==
  LET all == [i \in 1..5 |-> Get(scores, Append(required, "timeliness")[i])]
      dims == SelectSeq(all, LAMBDA v : v # Undefined)
  IN  IF Len(dims) = 0 THEN Whole(0)
      ELSE MathRound(JDiv(SumNums(dims), Whole(Len(dims))))

(***************************************************************************)
(* The explanation layer (generateExplanation).  What the environment      *)
(* supplies is the API key (set or not) and the outcome of the Gemini      *)
(* call: it throws, or it returns a text that is empty, is not JSON, or is *)
(* a JSON value whose parts pass or fail the checks of parseLLMResponse.   *)
(* A summary is kept as its source and wording tier, a recommendation text *)
(* as the name of the rule that produced it.                               *)
(***************************************************************************)
validSeverities == {"High", "Medium", "Low"}

validImpacts == {"Compliance", "Operations", "Analytics"}

NoGemini == [apiKey |-> FALSE, outcome |-> "none", summary |-> FALSE,
             problemAreas |-> FALSE, isArray |-> FALSE, recommendations |-> <<>>]

NoExplanation == [settled |-> "pending", threw |-> FALSE, explanation |-> <<>>,
                  recommendations |-> <<>>]

Recommendation(severity, text, impact) ==
  [severity |-> severity, text |-> text, impact |-> impact]

\* The first n elements (Array.prototype.slice(0, n)).
Slice(seq, n) == SubSeq(seq, 1, IF Len(seq) < n THEN Len(seq) ELSE n)

\* !rec.text || typeof rec.text !== "string"; reading .text of null throws too.
RecThrows(rec) == rec.null \/ ~rec.text

FormatRec(rec) ==
  Recommendation(IF rec.severity \in validSeverities THEN rec.severity ELSE "Medium",
                 "llm",
                 IF rec.impact \in validImpacts THEN rec.impact ELSE "Operations")

parseLLMResponse_NoCountCheck(content) ==
  LET first == Slice(content.recommendations, 3)
  IN  IF \/ content.outcome # "json"
         \/ ~content.summary
         \/ ~content.problemAreas
         \/ ~content.isArray
         \/ \E i \in 1..Len(first) : RecThrows(first[i])
        THEN [NoExplanation EXCEPT !.threw = TRUE]
        ELSE [NoExplanation EXCEPT !.explanation = <<"llm">>,
                                   !.recommendations = [i \in 1..Len(first) |-> FormatRec(first[i])]]

parseLLMResponse(content) ==
  LET first == Slice(content.recommendations, 3)
  IN  IF \/ content.outcome # "json"
         \/ ~content.summary
         \/ ~content.problemAreas
         \/ ~content.isArray
         \/ \E i \in 1..Len(first) : RecThrows(first[i])
         \/ Len(first) # 3
        THEN [NoExplanation EXCEPT !.threw = TRUE]
        ELSE [NoExplanation EXCEPT !.explanation = <<"llm">>,
                                   !.recommendations = [i \in 1..Len(first) |-> FormatRec(first[i])]]

generateGeminiExplanation(response) ==
  IF response.outcome = "throws" THEN [NoExplanation EXCEPT !.threw = TRUE]
  ELSE IF response.outcome = "empty" THEN [NoExplanation EXCEPT !.threw = TRUE]
  ELSE parseLLMResponse(response)

\* One recommendation when the score is below 70, High below 50.
ScoreRecommendation(score, text, impact) ==
  IF JLt(score, Whole(70))
    THEN <<Recommendation(IF JLt(score, Whole(50)) THEN "High" ELSE "Medium", text, impact)>>
    ELSE <<>>

RECURSIVE FillToThree(_)
FillToThree(recommendations) ==
  IF Len(recommendations) < 3
    THEN FillToThree(Append(recommendations, Recommendation("Low", "monitor", "Operations")))
    ELSE recommendations

generateFallbackExplanation(dims, DQS) ==
  LET tier == IF JGe(DQS, Whole(80)) THEN "strong"
              ELSE IF JGe(DQS, Whole(60)) THEN "acceptable" ELSE "below"
      scored == ScoreRecommendation(Get(dims, "completeness"), "completeness", "Compliance")
                \o ScoreRecommendation(Get(dims, "validity"), "validity", "Compliance")
                \o ScoreRecommendation(Get(dims, "uniqueness"), "uniqueness", "Analytics")
      withConsistency ==
        IF JLt(Get(dims, "consistency"), Whole(70)) /\ Len(scored) < 3
          THEN Append(scored, Recommendation("Medium", "consistency", "Operations"))
          ELSE scored
  IN  [NoExplanation EXCEPT !.explanation = <<"fallback", tier, DQS>>,
                            !.recommendations = Slice(FillToThree(withConsistency), 3)]

\* The value the returned promise resolves with.
generateExplanation(dims, DQS, env) ==
  LET viaGemini == generateGeminiExplanation(env)
      value == IF ~env.apiKey THEN generateFallbackExplanation(dims, DQS)
               ELSE IF viaGemini.threw THEN generateFallbackExplanation(dims, DQS)
               ELSE viaGemini
  IN  [value EXCEPT !.settled = "resolved"]

(***************************************************************************)
(* The AnalysisPage component.  page holds its four state cells; a cell    *)
(* that is null is the empty sequence, otherwise a sequence of one value.  *)
(* fetches holds the request bodies of the handleExplain calls that are    *)
(* awaiting their response, in the order they were sent.                   *)
(***************************************************************************)
NoPage ==
  [analysisResult |-> <<>>, explanation |-> <<>>, explaining |-> FALSE, explainError |-> <<>>]

\* handleAnalysisComplete(result): the new state cells.
handleAnalysisComplete(state, analysis) ==
  [state EXCEPT !.analysisResult = <<analysis>>,
                !.explanation = <<>>,
                !.explainError = <<>>]

\* handleExplain up to its first await: nothing happens without a result;
\* otherwise the flags are set and the result in state becomes the body.
handleExplainSend(state) ==
  IF state.analysisResult = <<>> THEN state
  ELSE [state EXCEPT !.explaining = TRUE, !.explainError = <<>>]

\* What POST /explain answers for a body when no API key is configured.
ExplanationFor(body) == generateExplanation(body.dimensions, body.DQS, NoGemini)

\* handleExplain after its awaits: setExplanation(result) on an ok response,
\* setExplainError otherwise, and setExplaining(false) in either case.
handleExplainResolve(state, body, ok) ==
  IF ok
    THEN [state EXCEPT !.explanation = <<ExplanationFor(body)>>, !.explaining = FALSE]
    ELSE [state EXCEPT !.explainError = <<"Failed to generate explanation">>,
                       !.explaining = FALSE]

\* The sequence without its i-th element.
RemoveAt(seq, i) == SubSeq(seq, 1, i - 1) \o SubSeq(seq, i + 1, Len(seq))

(***************************************************************************)
(* The upload and score routes and the module variable LAST_PROFILE they   *)
(* share (null is the empty sequence).  uploads and scoreCalls hold, per   *)
(* client, the request being handled or the last response sent.            *)
(***************************************************************************)
Clients == {"A", "B"}

\* +(count / rowCount).toFixed(3); 0 / 0 is NaN.
RateToFixed3(count, rowCount) ==
  IF rowCount = 0 THEN NaN
  ELSE JDiv(MathRound(JMul(JDiv(Whole(count), Whole(rowCount)), Whole(1000))), Whole(1000))

IsNullValue(row, col) == ~HasKey(row, col) \/ Lookup(row, col) = <<>>

buildDatasetProfile(rs, headers) ==
  [rowCount |-> Len(rs),
   columns |->
     [col \in {headers[j] : j \in 1..Len(headers)} |->
        [nullRate |->
           RateToFixed3(Cardinality({i \in 1..Len(rs) : IsNullValue(rs[i], col)}), Len(rs)),
         uniqueRate |->
           RateToFixed3(Cardinality({Lookup(rs[i], col) :
                                       i \in {h \in 1..Len(rs) : ~IsNullValue(rs[h], col)}}),
                        Len(rs))]]]

NoRequest == [stage |-> "idle", file |-> <<>>, status |-> 0, error |-> "", profile |-> <<>>]

\* The form data of an upload: no file, a text Papa reports errors for, or
\* a CSV text with its parsed headers and rows.
NoFile == [kind |-> "absent", headers |-> <<>>, rows |-> <<>>]

MalformedFile == [kind |-> "malformed", headers |-> <<>>, rows |-> <<>>]

CsvFile(headers, rs) == [kind |-> "csv", headers |-> headers, rows |-> rs]

DatasetPOST_StoreFirst(file, last) ==
  IF file.kind = "absent"
    THEN [status |-> 400, error |-> "CSV required", profile |-> <<>>, last |-> last]
  ELSE IF file.kind = "malformed"
    THEN [status |-> 500, error |-> "Dataset upload failed", profile |-> <<>>,
          last |-> <<buildDatasetProfile(file.rows, file.headers)>>]
  ELSE [status |-> 200, error |-> "",
        profile |-> <<buildDatasetProfile(file.rows, file.headers)>>,
        last |-> <<buildDatasetProfile(file.rows, file.headers)>>]

\* POST /api/dataset: the response and the value LAST_PROFILE has afterwards.
DatasetPOST(file, last) ==
  IF file.kind = "absent"
    THEN [status |-> 400, error |-> "CSV required", profile |-> <<>>, last |-> last]
  ELSE IF file.kind = "malformed"
    THEN [status |-> 500, error |-> "Dataset upload failed", profile |-> <<>>, last |-> last]
  ELSE [status |-> 200, error |-> "",
        profile |-> <<buildDatasetProfile(file.rows, file.headers)>>,
        last |-> <<buildDatasetProfile(file.rows, file.headers)>>]

getLastProfile(last) == last

\* POST /api/score up to its await: 400 without a profile, otherwise the
\* profile read is the body sent on to the analyze route.
ScorePOST(last) ==
  LET profile == getLastProfile(last)
  IN  IF profile = <<>>
        THEN [NoRequest EXCEPT !.stage = "done", !.status = 400,
                               !.error = "No dataset uploaded yet"]
        ELSE [NoRequest EXCEPT !.stage = "forwarding", !.profile = profile]

PageAndServerIdle ==
  /\ page = NoPage
  /\ fetches = <<>>
  /\ LAST_PROFILE = <<>>
  /\ uploads = [c \in Clients |-> NoRequest]
  /\ scoreCalls = [c \in Clients |-> NoRequest]

(***************************************************************************)
(* Inputs.                                                                 *)
(***************************************************************************)
ColId == <<"i", "d">>

ColDate == <<"D", "a", "t", "e">>

\* Key orders of the first row.
Layouts == {<<>>, <<ColId>>, <<ColDate>>, <<ColId, ColDate>>, <<ColDate, ColId>>}

\* Key sets of the later rows (their key order is never read).
LaterLayouts == {<<>>, <<ColId>>, <<ColDate>>, <<ColId, ColDate>>}

\* Cell values by column: "", " ", "a", "a " for id; "", "ab" and the date
\* string "2025" for Date.
IdValues == {<<>>, <<" ">>, <<"a">>, <<"a", " ">>}

DateValues == {<<>>, <<"a", "b">>, <<"2", "0", "2", "5">>}

ValuesOf(col) == IF col = ColId THEN IdValues ELSE DateValues

RowsOver(layouts) ==
  UNION {{[i \in 1..Len(L) |-> <<L[i], f[i]>>] :
            f \in {g \in [1..Len(L) -> IdValues \cup DateValues] :
                     \A i \in 1..Len(L) : g[i] \in ValuesOf(L[i])}} :
         L \in layouts}

Datasets ==
  {<<>>} \cup
  {<<first>> \o later :
     first \in RowsOver(Layouts),
     later \in UNION {[1..m -> RowsOver(LaterLayouts)] : m \in 0..(MaxRows - 1)}}

\* Wall-clock readings: half an hour and ten days after 2025-01-01T00:00Z.
ClockReadings ==
  {DateParse(<<"2", "0", "2", "5">>).n + off : off \in {30, 240 * MinutesPerHour}}

ValidScores == {Whole((100 * i) \div ScoreLevels) : i \in 0..ScoreLevels}

\* Out of range above and below, and NaN.
InvalidScores == {Whole(101), Whole(-1), NaN}

\* Every score valid; timeliness present or absent; and two objects whose
\* scores are all 50.5.
AllValidObjects ==
  UNION {[K -> ValidScores] \cup {[key \in K |-> Num(101, 2)]} :
         K \in {DimKeys, DimKeys \ {"timeliness"}}}

\* One key missing, holding an invalid value or holding a string.
OneInvalidObjects ==
  UNION {{[h \in DOMAIN obj \ {key} |-> obj[h]]} \cup
         {[obj EXCEPT ![key] = bad] : bad \in InvalidScores \cup {NotANumberString}} :
         obj \in [DimKeys -> ValidScores] \cup [DimKeys \ {"timeliness"} -> ValidScores],
         key \in DimKeys \ {"timeliness"}}
  \cup
  {[obj EXCEPT !["timeliness"] = bad] :
     obj \in [DimKeys -> ValidScores], bad \in InvalidScores \cup {NotANumberString}}

ValidInputs == {Ref(obj) : obj \in AllValidObjects}

InvalidInputs ==
  {NullRef, Ref(EmptyObject)} \cup {Ref(obj) : obj \in OneInvalidObjects}

WeightsOf(c, u, s, v, t) ==
  [key \in DimKeys |->
     CASE key = "completeness" -> c
       [] key = "uniqueness" -> u
       [] key = "consistency" -> s
       [] key = "validity" -> v
       [] key = "timeliness" -> t]

Doubled(w) == [key \in DOMAIN w |-> JMul(Whole(2), w[key])]

Without(w, key) == [h \in DOMAIN w \ {key} |-> w[h]]

\* Weight maps: the documented ones (sum 1), one summing to 0.8, one within
\* the tolerance of 1 (1.0005), all zero, timeliness only, the doubles of the
\* maps summing to 1, and the default map with one key omitted or set to 0.
UnitWeightMaps ==
  {DEFAULT_WEIGHTS,
   WeightsOf(Num(2, 10), Num(2, 10), Num(2, 10), Num(2, 10), Num(2, 10)),
   WeightsOf(Num(5, 10), Num(5, 10), Whole(0), Whole(0), Whole(0)),
   WeightsOf(Whole(0), Whole(0), Whole(0), Whole(0), Whole(1))}

WeightInputs ==
  UnitWeightMaps \cup
  {Doubled(w) : w \in UnitWeightMaps} \cup
  {WeightsOf(Num(5, 10), Num(1, 10), Whole(0), Num(1, 10), Num(1, 10)),
   WeightsOf(Num(5001, 1000000), Num(995499, 1000000), Whole(0), Whole(0), Whole(0)),
   WeightsOf(Whole(0), Whole(0), Whole(0), Whole(0), Whole(0))} \cup
  {Without(DEFAULT_WEIGHTS, key) : key \in DimKeys} \cup
  {[DEFAULT_WEIGHTS EXCEPT ![key] = Whole(0)] : key \in DimKeys}

\* The weight maps tried on the invalid dimension objects.
FewWeightInputs ==
  {DEFAULT_WEIGHTS,
   Doubled(WeightsOf(Num(2, 10), Num(2, 10), Num(2, 10), Num(2, 10), Num(2, 10))),
   WeightsOf(Num(5, 10), Num(1, 10), Whole(0), Num(1, 10), Num(1, 10)),
   Without(DEFAULT_WEIGHTS, "timeliness")}

NoResult == [dimensions |-> EmptyObject, DQS |-> Undefined]

(***************************************************************************)
(* The scoring pipeline: computeAllScores(rows), then computeDQS on its    *)
(* result with the default weights.                                        *)
(***************************************************************************)
Init ==
  /\ rows \in Datasets
  /\ now \in ClockReadings
  /\ metadata = NoMetadata
  /\ dimensions = NullRef
  /\ weights = DEFAULT_WEIGHTS
  /\ result = NoResult
  /\ gemini = NoGemini
  /\ explanation = NoExplanation
  /\ PageAndServerIdle
  /\ pc = "start"

ComputeAllScores ==
  /\ pc = "start"
  /\ dimensions' = Ref(computeAllScores(rows, now))
  /\ pc' = "scored"
  /\ UNCHANGED <<rows, now, metadata, weights, result, gemini, explanation,
               page, fetches, LAST_PROFILE, uploads, scoreCalls>>

ComputeDQS ==
  /\ pc = "scored"
  /\ LET r == computeDQS(dimensions, weights)
     IN  /\ dimensions' = r.arg
         /\ result' = r.ret
  /\ pc' = "done"
  /\ UNCHANGED <<rows, now, metadata, weights, gemini, explanation,
               page, fetches, LAST_PROFILE, uploads, scoreCalls>>

Next == ComputeAllScores \/ ComputeDQS

Spec == Init /\ [][Next]_vars

(***************************************************************************)
(* computeDQS called directly on a dimensions object and a weight map.     *)
(***************************************************************************)
InitDQS ==
  /\ rows = <<>>
  /\ now \in {0}
  /\ metadata = NoMetadata
  /\ \/ dimensions \in ValidInputs /\ weights \in WeightInputs
     \/ dimensions \in InvalidInputs /\ weights \in FewWeightInputs
  /\ result = NoResult
  /\ gemini = NoGemini
  /\ explanation = NoExplanation
  /\ PageAndServerIdle
  /\ pc = "scored"

NextDQS == ComputeDQS

SpecDQS == InitDQS /\ [][NextDQS]_vars

(***************************************************************************)
(* computeAllScores on longer datasets: a run of one row followed by a run *)
(* of another, single-column datasets of pairwise distinct values, and     *)
(* long single-column datasets of one repeated value.                      *)
(***************************************************************************)
MaxMixed == 8

MaxCopies == 201

Repeat(row, n) == [i \in 1..n |-> row]

RunRows ==
  {<<>>,
   << <<ColId, <<"a">>>> >>,
   << <<ColId, <<"b", "c">>>> >>,
   << <<ColId, <<" ">>>> >>,
   << <<ColId, <<"a">>>>, <<ColDate, <<>>>> >>,
   << <<ColDate, <<"2", "0", "2", "5">>>>, <<ColId, <<"a">>>> >>}

DistinctRows(n) == [i \in 1..n |-> << <<ColId, <<LowerAlphabet[i]>>>> >>]

LongDatasets ==
  {Repeat(a, p) \o Repeat(b, q) :
     a \in RunRows, b \in RunRows, p \in 1..MaxMixed, q \in 0..1}
  \cup {DistinctRows(n) : n \in 1..MaxMixed}
  \cup {Repeat(<< <<ColId, <<"a">>>> >>, n) : n \in 1..MaxCopies}

InitLong ==
  /\ rows \in LongDatasets
  /\ now \in ClockReadings
  /\ metadata = NoMetadata
  /\ dimensions = NullRef
  /\ weights = DEFAULT_WEIGHTS
  /\ result = NoResult
  /\ gemini = NoGemini
  /\ explanation = NoExplanation
  /\ PageAndServerIdle
  /\ pc = "start"

NextLong == ComputeAllScores

SpecLong == InitLong /\ [][NextLong]_vars

(***************************************************************************)
(* The two scoring paths on datasets with date columns: computeAllScores,  *)
(* and POST /analyze (prepareMetadata, computeScores, calculateDQS).  A    *)
(* dataset is a run of one row followed by a run of another row with the   *)
(* same keys, long enough to exceed the detector's sample.                 *)
(***************************************************************************)
MaxSampled == 11

ColTime == <<"T", "i", "m", "e">>

\* A name that holds no keyword, though it shares "stamp" with one.
ColStamp == <<"S", "t", "a", "m", "p">>

TimeLayouts ==
  {<<ColId>>, <<ColDate>>, <<ColId, ColDate>>, <<ColDate, ColTime>>,
   <<ColTime, ColDate>>, <<ColStamp, ColId>>}

\* Cell values by column: a plain and a date-like id; empty, unparsable and
\* current for Date; unparsable and a year old for Time.
TimeValuesOf(col) ==
  IF col = ColId THEN {<<"a">>, <<"2", "0", "2", "5">>}
  ELSE IF col = ColDate THEN {<<>>, <<"a", "b">>, <<"2", "0", "2", "5">>}
  ELSE {<<"a", "b">>, <<"2", "0", "2", "4">>}

TimeRows(L) ==
  {[i \in 1..Len(L) |-> <<L[i], f[i]>>] :
     f \in {g \in [1..Len(L) -> UNION {TimeValuesOf(c) : c \in {ColId, ColDate, ColTime}}] :
              \A i \in 1..Len(L) : g[i] \in TimeValuesOf(L[i])}}

\* The lengths (p, q) of the two runs: a second run of 0 or 1 rows, or one
\* that fills the dataset to MaxSampled rows.
RunLengths ==
  {pq \in (1..MaxSampled) \X (0..MaxSampled) :
     pq[1] + pq[2] <= MaxSampled /\ pq[2] \in {0, 1, MaxSampled - pq[1]}}

TimeDatasets ==
  UNION {{Repeat(a, pq[1]) \o Repeat(b, pq[2]) :
            a \in TimeRows(L), b \in TimeRows(L), pq \in RunLengths} :
         L \in TimeLayouts}

InitEngine ==
  /\ rows \in TimeDatasets
  /\ now \in {DateParse(<<"2", "0", "2", "5">>).n + 30}
  /\ metadata = NoMetadata
  /\ dimensions = NullRef
  /\ weights = DEFAULT_WEIGHTS
  /\ result = NoResult
  /\ gemini = NoGemini
  /\ explanation = NoExplanation
  /\ PageAndServerIdle
  /\ pc = "start"

PrepareMetadata ==
  /\ pc = "start"
  /\ metadata' = prepareMetadata(rows)
  /\ pc' = "prepared"
  /\ UNCHANGED <<rows, now, dimensions, weights, result, gemini, explanation,
               page, fetches, LAST_PROFILE, uploads, scoreCalls>>

ComputeScores ==
  /\ pc = "prepared"
  /\ dimensions' = Ref(computeScores(rows, metadata, now))
  /\ pc' = "engine_scored"
  /\ UNCHANGED <<rows, now, metadata, weights, result, gemini, explanation,
               page, fetches, LAST_PROFILE, uploads, scoreCalls>>

CalculateDQS ==
  /\ pc = "engine_scored"
  /\ result' = [dimensions |-> dimensions.props, DQS |-> calculateDQS(dimensions.props)]
  /\ pc' = "engine_done"
  /\ UNCHANGED <<rows, now, metadata, dimensions, weights, gemini, explanation,
               page, fetches, LAST_PROFILE, uploads, scoreCalls>>

NextEngine == ComputeAllScores \/ PrepareMetadata \/ ComputeScores \/ CalculateDQS

SpecEngine == InitEngine /\ [][NextEngine]_vars

(***************************************************************************)
(* calculateDQS called directly on a scores object in which any of the     *)
(* five scores may be undefined.                                           *)
(***************************************************************************)
EngineScoreObjects ==
  UNION {[K -> {Whole(0), Whole(1), Whole(50), Whole(100)}] : K \in SUBSET DimKeys}

InitCalc ==
  /\ rows = <<>>
  /\ now \in {0}
  /\ metadata = NoMetadata
  /\ dimensions \in {Ref(obj) : obj \in EngineScoreObjects}
  /\ weights = DEFAULT_WEIGHTS
  /\ result = NoResult
  /\ gemini = NoGemini
  /\ explanation = NoExplanation
  /\ PageAndServerIdle
  /\ pc = "engine_scored"

NextCalc == CalculateDQS

SpecCalc == InitCalc /\ [][NextCalc]_vars

(***************************************************************************)
(* The explanation layer on its own: generateExplanation called with a     *)
(* dimensions object and a DQS, for every environment: no API key, a       *)
(* failing Gemini call, an empty or non-JSON text, and JSON texts with     *)
(* every list of up to MaxRecs recommendations of the kinds below.         *)
(***************************************************************************)
MaxRecs == 4

RecKinds ==
  { [null |-> FALSE, text |-> TRUE,  severity |-> "High",     impact |-> "Compliance"],
    [null |-> FALSE, text |-> TRUE,  severity |-> "Critical", impact |-> "Finance"],
    [null |-> FALSE, text |-> FALSE, severity |-> "Low",      impact |-> "Analytics"],
    [null |-> TRUE,  text |-> FALSE, severity |-> "",         impact |-> ""] }

JsonResponse(summary, problemAreas, isArray, recommendations) ==
  [apiKey |-> TRUE, outcome |-> "json", summary |-> summary,
   problemAreas |-> problemAreas, isArray |-> isArray, recommendations |-> recommendations]

GeminiEnvironments ==
  {NoGemini}
  \cup {[NoGemini EXCEPT !.apiKey = TRUE, !.outcome = o] : o \in {"throws", "empty", "unparsable"}}
  \cup {JsonResponse(TRUE, TRUE, TRUE, recs) : recs \in UNION {[1..n -> RecKinds] : n \in 0..MaxRecs}}
  \cup {JsonResponse(FALSE, TRUE, TRUE, <<>>), JsonResponse(TRUE, FALSE, TRUE, <<>>),
        JsonResponse(TRUE, TRUE, FALSE, <<>>)}

Scores4(c, u, k, v) ==
  ("completeness" :> c) @@ ("uniqueness" :> u) @@ ("consistency" :> k) @@ ("validity" :> v)

ExplainInputs ==
  { <<Scores4(Whole(100), Whole(100), Whole(100), Whole(100)), Whole(100)>>,
    <<Scores4(Whole(40), Whole(65), Whole(50), Whole(60)), Whole(54)>>,
    <<Scores4(Whole(69), Whole(90), Whole(90), Whole(90)), Whole(85)>>,
    <<Scores4(Whole(90), Whole(90), Whole(50), Whole(69)), Whole(75)>>,
    <<Scores4(NaN, NaN, NaN, NaN), NaN>> }

InitExplain ==
  /\ rows = <<>>
  /\ now = 0
  /\ metadata = NoMetadata
  /\ weights = Ref(EmptyObject)
  /\ \E input \in ExplainInputs :
       /\ dimensions = Ref(input[1])
       /\ result = [dimensions |-> input[1], DQS |-> input[2]]
  /\ gemini \in GeminiEnvironments
  /\ explanation = NoExplanation
  /\ PageAndServerIdle
  /\ pc = "explain"

GenerateExplanation ==
  /\ pc = "explain"
  /\ explanation' = generateExplanation(dimensions.props, result.DQS, gemini)
  /\ pc' = "explained"
  /\ UNCHANGED <<rows, now, metadata, dimensions, weights, result, gemini,
               page, fetches, LAST_PROFILE, uploads, scoreCalls>>

NextExplain == GenerateExplanation

SpecExplain == InitExplain /\ [][NextExplain]_vars

(***************************************************************************)
(* Timeliness against the clock: both scoring paths on short datasets whose *)
(* dates lie one minute before and exactly on each age threshold, and the  *)
(* same rows scored again after the clock has advanced.                    *)
(***************************************************************************)
MaxClockRows == 3

\* Hours at which the score steps down.
AgeThresholds == {1, 6, 24, 72, 168}

\* Readings a minute before and exactly on each threshold after 2025-01-01.
ThresholdReadings ==
  {DateParse(<<"2", "0", "2", "5">>).n + h * MinutesPerHour - off :
     h \in AgeThresholds, off \in {0, 1}}

ClockLayouts == {<<ColDate>>, <<ColId, ColDate>>}

\* Rows whose id is "a" and whose Date is empty, unparsable or "2025".
ClockRows(L) == {row \in TimeRows(L) : HasKey(row, ColId) => Lookup(row, ColId) = <<"a">>}

ClockDatasets ==
  UNION {[1..m -> ClockRows(L)] : m \in 1..MaxClockRows, L \in ClockLayouts}

InitClock ==
  /\ rows \in ClockDatasets
  /\ now \in ThresholdReadings
  /\ metadata = NoMetadata
  /\ dimensions = NullRef
  /\ weights = DEFAULT_WEIGHTS
  /\ result = NoResult
  /\ gemini = NoGemini
  /\ explanation = NoExplanation
  /\ PageAndServerIdle
  /\ pc = "start"

\* Time passes between two scoring calls of the same rows.
Tick ==
  /\ pc = "scored"
  /\ \E later \in ThresholdReadings : later > now /\ now' = later
  /\ UNCHANGED <<rows, metadata, dimensions, weights, result, gemini, explanation,
               page, fetches, LAST_PROFILE, uploads, scoreCalls, pc>>

\* computeAllScores called again on the same rows.
Rescore ==
  /\ pc = "scored"
  /\ dimensions' = Ref(computeAllScores(rows, now))
  /\ UNCHANGED <<rows, now, metadata, weights, result, gemini, explanation,
               page, fetches, LAST_PROFILE, uploads, scoreCalls, pc>>

NextClock == ComputeAllScores \/ Tick \/ Rescore

SpecClock == InitClock /\ [][NextClock]_vars

\* Each path run once at one reading of the clock.
NextAge == ComputeAllScores \/ PrepareMetadata \/ ComputeScores \/ CalculateDQS

SpecAge == InitClock /\ [][NextAge]_vars

(***************************************************************************)
(* computeScores called directly, with metadata that need not come from    *)
(* prepareMetadata of the same rows (any columns, flag and column name),   *)
(* on short datasets and on the empty dataset; computeAllScores beside it. *)
(***************************************************************************)
MetadataInputs ==
  {[columns |-> columns, rowCount |-> rowCount, columnCount |-> Len(columns),
    hasDateColumn |-> flag, dateColumnName |-> name] :
     columns \in {<<>>, <<ColDate>>, <<ColId, ColDate>>},
     rowCount \in {0, 1},
     flag \in BOOLEAN,
     name \in {<<>>, <<<<>>>>, <<ColDate>>, <<ColId>>, <<ColTime>>}}

InitMeta ==
  /\ rows \in {<<>>} \cup ClockDatasets
  /\ now \in {DateParse(<<"2", "0", "2", "5">>).n + 30}
  /\ \/ pc = "start" /\ metadata = NoMetadata
     \/ pc = "prepared" /\ metadata \in MetadataInputs
  /\ dimensions = NullRef
  /\ weights = DEFAULT_WEIGHTS
  /\ result = NoResult
  /\ gemini = NoGemini
  /\ explanation = NoExplanation
  /\ PageAndServerIdle

NextMeta == ComputeAllScores \/ ComputeScores \/ CalculateDQS

SpecMeta == InitMeta /\ [][NextMeta]_vars

(***************************************************************************)
(* Both scoring paths on columns whose values differ in length: empty,     *)
(* one, two (padded with spaces), four and twelve characters, so that a    *)
(* column's consistency takes values between 0 (clamped) and 100.          *)
(***************************************************************************)
MaxConsRows == 4

MaxWideRows == 3

TwelveChars == [i \in 1..12 |-> "a"]

PaddedAb == <<" ", "a", "b", " ">>

LengthValues == {<<>>, <<"a">>, PaddedAb, <<"2", "0", "2", "5">>, TwelveChars}

\* One column of up to MaxConsRows values, or an id column of one or twelve
\* characters beside a Date column of zero, two or four, up to MaxWideRows rows.
ConsDatasets ==
  UNION {[1..m -> {<<<<ColId, v>>>> : v \in LengthValues}] : m \in 1..MaxConsRows}
  \cup
  UNION {[1..m -> {<<<<ColId, v>>, <<ColDate, w>>>> :
                     v \in {<<"a">>, TwelveChars},
                     w \in {<<>>, PaddedAb, <<"2", "0", "2", "5">>}}] : m \in 1..MaxWideRows}

InitCons ==
  /\ rows \in ConsDatasets
  /\ now \in {DateParse(<<"2", "0", "2", "5">>).n + 30}
  /\ metadata = NoMetadata
  /\ dimensions = NullRef
  /\ weights = DEFAULT_WEIGHTS
  /\ result = NoResult
  /\ gemini = NoGemini
  /\ explanation = NoExplanation
  /\ PageAndServerIdle
  /\ pc = "start"

NextCons == ComputeAllScores \/ PrepareMetadata \/ ComputeScores \/ CalculateDQS

SpecCons == InitCons /\ [][NextCons]_vars

(***************************************************************************)
(* The AnalysisPage under every interleaving of its two handlers: analyses *)
(* arrive from the upload component at any time, the user asks for an      *)
(* explanation at any time a result is shown, and each request sent is     *)
(* answered, or fails, at any later time.                                  *)
(***************************************************************************)
MaxInFlight == 2

\* The results an analysis can deliver: finite scores with their DQS.
AnalysisInputs ==
  {[dimensions |-> input[1], DQS |-> input[2]] :
     input \in {i \in ExplainInputs : IsNum(i[2])}}

InitPage ==
  /\ rows = <<>>
  /\ now = 0
  /\ metadata = NoMetadata
  /\ dimensions = NullRef
  /\ weights = DEFAULT_WEIGHTS
  /\ result = NoResult
  /\ gemini = NoGemini
  /\ explanation = NoExplanation
  /\ PageAndServerIdle
  /\ pc = "page"

HandleAnalysisComplete ==
  /\ pc = "page"
  /\ \E analysis \in AnalysisInputs : page' = handleAnalysisComplete(page, analysis)
  /\ UNCHANGED <<rows, now, metadata, dimensions, weights, result, gemini, explanation,
                 fetches, LAST_PROFILE, uploads, scoreCalls, pc>>

\* handleExplain from the click to the fetch being sent.
HandleExplain ==
  /\ pc = "page"
  /\ Len(fetches) < MaxInFlight
  /\ page' = handleExplainSend(page)
  /\ fetches' = IF page.analysisResult = <<>> THEN fetches
                ELSE Append(fetches, page.analysisResult[1])
  /\ UNCHANGED <<rows, now, metadata, dimensions, weights, result, gemini, explanation,
                 LAST_PROFILE, uploads, scoreCalls, pc>>

\* The rest of one handleExplain call, once its response or failure is in.
ExplainSettles ==
  /\ pc = "page"
  /\ \E i \in 1..Len(fetches), ok \in BOOLEAN :
       /\ page' = handleExplainResolve(page, fetches[i], ok)
       /\ fetches' = RemoveAt(fetches, i)
  /\ UNCHANGED <<rows, now, metadata, dimensions, weights, result, gemini, explanation,
                 LAST_PROFILE, uploads, scoreCalls, pc>>

NextPage == HandleAnalysisComplete \/ HandleExplain \/ ExplainSettles

SpecPage == InitPage /\ [][NextPage]_vars

(***************************************************************************)
(* The two routes serving two clients: uploads and score requests arrive   *)
(* and finish in any order.                                                *)
(***************************************************************************)
FileOne == CsvFile(<<ColId>>, <<<<<<ColId, <<"a">>>>>>, <<<<ColId, <<>>>>>>>>)

FileTwo == CsvFile(<<ColId, ColDate>>, <<<<<<ColId, <<"a">>>>, <<ColDate, <<"2", "0", "2", "5">>>>>>>>)

UploadedFiles == {NoFile, MalformedFile, FileOne, FileTwo}

InitServer ==
  /\ rows = <<>>
  /\ now = 0
  /\ metadata = NoMetadata
  /\ dimensions = NullRef
  /\ weights = DEFAULT_WEIGHTS
  /\ result = NoResult
  /\ gemini = NoGemini
  /\ explanation = NoExplanation
  /\ PageAndServerIdle
  /\ pc = "server"

\* A client's POST /api/dataset is received: the handler awaits the form data.
UploadArrives ==
  /\ pc = "server"
  /\ \E c \in Clients, file \in UploadedFiles :
       /\ uploads[c].stage # "reading"
       /\ uploads' = [uploads EXCEPT ![c] = [NoRequest EXCEPT !.stage = "reading",
                                                             !.file = <<file>>]]
  /\ UNCHANGED <<rows, now, metadata, dimensions, weights, result, gemini, explanation,
                 page, fetches, LAST_PROFILE, scoreCalls, pc>>

\* The handler resumes after its awaits and runs to its response.
UploadFinishes ==
  /\ pc = "server"
  /\ \E c \in Clients :
       /\ uploads[c].stage = "reading"
       /\ LET r == DatasetPOST(uploads[c].file[1], LAST_PROFILE)
          IN  /\ LAST_PROFILE' = r.last
              /\ uploads' = [uploads EXCEPT ![c] =
                               [stage |-> "done", file |-> uploads[c].file,
                                status |-> r.status, error |-> r.error,
                                profile |-> r.profile]]
  /\ UNCHANGED <<rows, now, metadata, dimensions, weights, result, gemini, explanation,
                 page, fetches, scoreCalls, pc>>

\* A client's POST /api/score runs up to its fetch of the analyze route.
ScoreArrives ==
  /\ pc = "server"
  /\ \E c \in Clients :
       /\ scoreCalls[c].stage # "forwarding"
       /\ scoreCalls' = [scoreCalls EXCEPT ![c] = ScorePOST(LAST_PROFILE)]
  /\ UNCHANGED <<rows, now, metadata, dimensions, weights, result, gemini, explanation,
                 page, fetches, LAST_PROFILE, uploads, pc>>

\* The analyze route answers (200 with its data) or the fetch throws (500).
ScoreFinishes ==
  /\ pc = "server"
  /\ \E c \in Clients, ok \in BOOLEAN :
       /\ scoreCalls[c].stage = "forwarding"
       /\ scoreCalls' = [scoreCalls EXCEPT ![c] =
                           [@ EXCEPT !.stage = "done",
                                     !.status = IF ok THEN 200 ELSE 500,
                                     !.error = IF ok THEN "" ELSE "Scoring failed"]]
  /\ UNCHANGED <<rows, now, metadata, dimensions, weights, result, gemini, explanation,
                 page, fetches, LAST_PROFILE, uploads, pc>>

NextServer == UploadArrives \/ UploadFinishes \/ ScoreArrives \/ ScoreFinishes

SpecServer == InitServer /\ [][NextServer]_vars

(***************************************************************************)
(* computeDQS in binary64, on weight maps given in hundredths.  The exact  *)
(* weighted average of the first two score objects under the weights       *)
(* 0.1, 0.1, 0.1, 0.3 ends in .5 (7.5 / 0.6 and 22.5 / 0.6).               *)
(***************************************************************************)
ScoresOf(c, u, s, v) ==
  [key \in DimKeys \ {"timeliness"} |->
     CASE key = "completeness" -> Whole(c)
       [] key = "uniqueness" -> Whole(u)
       [] key = "consistency" -> Whole(s)
       [] key = "validity" -> Whole(v)]

RequiredScores ==
  {ScoresOf(0, 0, 75, 0), ScoresOf(0, 0, 75, 50), ScoresOf(80, 60, 40, 20),
   ScoresOf(100, 100, 100, 100)}

\* Timeliness absent, out of range, not a number, or valid.
DoubleInputs ==
  {Ref(obj) : obj \in RequiredScores} \cup
  {Ref(Set(obj, "timeliness", t)) :
     obj \in RequiredScores, t \in {Whole(101), NaN, Whole(50)}}

RequiredWeights ==
  {Without(DEFAULT_WEIGHTS, "timeliness"),
   Without(WeightsOf(Num(1, 10), Num(1, 10), Num(1, 10), Num(3, 10), Whole(0)),
           "timeliness"),
   Without(WeightsOf(Num(25, 100), Num(25, 100), Num(25, 100), Num(25, 100), Whole(0)),
           "timeliness"),
   Without(WeightsOf(Num(5, 10), Num(5, 10), Num(5, 10), Num(5, 10), Whole(0)),
           "timeliness")}

TimelinessWeights == {Whole(0), Num(1, 10), Num(15, 100), Whole(1)}

\* The four required weights, with weights.timeliness absent or set.
HundredthWeights ==
  RequiredWeights \cup
  {Set(w, "timeliness", t) : w \in RequiredWeights, t \in TimelinessWeights}

InitDouble ==
  /\ rows = <<>>
  /\ now \in {0}
  /\ metadata = NoMetadata
  /\ dimensions \in DoubleInputs
  /\ weights \in HundredthWeights
  /\ result = NoResult
  /\ gemini = NoGemini
  /\ explanation = NoExplanation
  /\ PageAndServerIdle
  /\ pc = "scored"

ComputeDQS64 ==
  /\ pc = "scored"
  /\ LET r == computeDQS64(dimensions, weights)
     IN  /\ dimensions' = r.arg
         /\ result' = r.ret
  /\ pc' = "done"
  /\ UNCHANGED <<rows, now, metadata, weights, gemini, explanation,
               page, fetches, LAST_PROFILE, uploads, scoreCalls>>

NextDouble == ComputeDQS64

SpecDouble == InitDouble /\ [][NextDouble]_vars

(***************************************************************************)
(* Properties.                                                             *)
(***************************************************************************)
IsScore(x) == IsNum(x) /\ x.d = 1 /\ 0 <= x.n /\ x.n <= 100

Scored == pc = "scored" /\ ~dimensions.null

Returned == pc = "done"

HasBlankCell(rs) ==
  \E i \in 1..Len(rs) : \E j \in 1..Len(rs[i]) :
    rs[i][j][2] # <<>> /\ Trim(rs[i][j][2]) = <<>>

HasMissingCell(rs) ==
  \E i \in 1..Len(rs) : \E j \in 1..Len(Columns(rs)) : ~HasKey(rs[i], Columns(rs)[j])

\* C1: each of the five scores returned by computeAllScores is an integer s
\* with 0 <= s <= 100, for every dataset.
C1_ScoresInRange ==
  Scored =>
    /\ DOMAIN dimensions.props = DimKeys
    /\ \A key \in DimKeys : IsScore(dimensions.props[key])

C1_Witness ==
  /\ Scored
  /\ Len(rows) = 2
  /\ HasBlankCell(rows)
  /\ HasMissingCell(rows)
  /\ dimensions.props["consistency"] = Whole(83)
  /\ dimensions.props["timeliness"] = Whole(100)

WeightsPresentNonNegative(w) ==
  \A key \in DimKeys : key \in DOMAIN w /\ JGe(w[key], Whole(0))

ActiveTotal(obj, w) ==
  LET active == ActiveKeys(HasTimeliness(obj))
  IN  SumNums([i \in 1..Len(active) |-> OrZero(Get(w, active[i]))])

\* C2: for every dimensions object and every weight map whose five weights
\* are present and non-negative, the DQS returned by computeDQS is an integer
\* in [0,100], and it is 0 when the total weight of the active dimensions is 0.
C2_DQSInRange ==
  Returned /\ WeightsPresentNonNegative(weights) =>
    /\ IsScore(result.DQS)
    /\ (~dimensions.null /\ ActiveTotal(dimensions.props, weights) = Whole(0)
          => result.DQS = Whole(0))

ZeroFilled(w) == [key \in DimKeys |-> IF key \in DOMAIN w THEN w[key] ELSE Whole(0)]

OmitsActiveKey(obj, w) ==
  \E key \in DimKeys \ DOMAIN w : key # "timeliness" \/ HasTimeliness(obj)

\* C3: a weight map that omits a dimension key (a required one, or timeliness
\* while a valid timeliness score is present) gives the same DQS, an integer
\* in [0,100], as the map with the omitted keys set to 0.
C3_OmittedWeightIsZero ==
  [][pc = "scored" /\ ~dimensions.null /\ OmitsActiveKey(dimensions.props, weights)
     => /\ IsScore(result'.DQS)
        /\ result'.DQS = computeDQS(dimensions, ZeroFilled(weights)).ret.DQS]_vars

RequiredValid(obj) ==
  \A i \in 1..Len(required) :
    required[i] \in DOMAIN obj /\ ~InvalidScore(obj[required[i]]) /\ IsNum(obj[required[i]])

RequiredTotal(w) == SumNums([i \in 1..Len(required) |-> Get(w, required[i])])

RequiredAverage(obj, w) ==
  MathRound(JDiv(SumNums([i \in 1..Len(required) |->
                            JMul(obj[required[i]], Get(w, required[i]))]),
                 RequiredTotal(w)))

\* C4: with no timeliness score, the DQS is round(sum(score_i * w_i) / sum(w_i))
\* over the four required dimensions, for every weight map whose four required
\* weights have a positive sum.
C4_RenormalizedAverage ==
  [][pc = "scored" /\ ~dimensions.null
     /\ "timeliness" \notin DOMAIN dimensions.props
     /\ RequiredValid(dimensions.props)
     /\ WeightsPresentNonNegative(weights)
     /\ JGt(RequiredTotal(weights), Whole(0))
     => result'.DQS = RequiredAverage(dimensions.props, weights)]_vars

SumsToOne(w) ==
  /\ \A key \in DimKeys : key \in DOMAIN w /\ IsNum(w[key])
  /\ SumNums([i \in 1..5 |-> w[Append(required, "timeliness")[i]]]) = Whole(1)

AllActiveEqual(obj, s) ==
  /\ DOMAIN obj \in {DimKeys, DimKeys \ {"timeliness"}}
  /\ \A key \in DOMAIN obj : obj[key] = Whole(s)

\* C6: if every active score is the same integer s in [0,100], then DQS = s
\* for every map of non-negative weights whose active total is positive.
C6_EqualScores ==
  [][pc = "scored" /\ ~dimensions.null
     /\ WeightsPresentNonNegative(weights)
     /\ JGt(ActiveTotal(dimensions.props, weights), Whole(0))
     => \A s \in 0..100 :
          AllActiveEqual(dimensions.props, s) => result'.DQS = Whole(s)]_vars

C6_Witness ==
  /\ Returned
  /\ weights = DEFAULT_WEIGHTS
  /\ AllActiveEqual(dimensions.props, 50)
  /\ "timeliness" \notin DOMAIN dimensions.props
  /\ result.DQS = Whole(50)

\* C7: computeDQS does not modify its dimensions argument, also when a
\* required score is missing or outside [0,100].
C7_ArgumentUnchanged == [][pc = "scored" => dimensions' = dimensions]_vars

\* C8: computeDQS on an absent dimensions object or on {} returns exactly
\* {dimensions: {}, DQS: 0}.
C8_EmptyOrAbsent ==
  [][pc = "scored" /\ (dimensions.null \/ dimensions.props = EmptyObject)
     => result' = [dimensions |-> EmptyObject, DQS |-> Whole(0)]]_vars

\* C9: when the column set is empty (no rows, or a first row without keys),
\* computeAllScores returns 0, 0, 0, 0 and timeliness 50.
C9_EmptyColumnSet ==
  Scored /\ Columns(rows) = <<>> =>
    /\ dimensions.props["completeness"] = Whole(0)
    /\ dimensions.props["uniqueness"] = Whole(0)
    /\ dimensions.props["consistency"] = Whole(0)
    /\ dimensions.props["validity"] = Whole(0)
    /\ dimensions.props["timeliness"] = Whole(50)

C9_Witness ==
  /\ Scored
  /\ Len(rows) = 2
  /\ rows[1] = <<>>
  /\ Len(rows[2]) = 2
  /\ dimensions.props["timeliness"] = Whole(50)

\* The row with column col removed, and with col set to v (appended when absent).
RowWithout(row, col) ==
  Filter(row, {row[j] : j \in {h \in 1..Len(row) : row[h][1] # col}})

RowWith(row, col, v) ==
  IF HasKey(row, col)
    THEN [j \in 1..Len(row) |-> IF row[j][1] = col THEN <<col, v>> ELSE row[j]]
    ELSE Append(row, <<col, v>>)

\* The datasets that differ from rs in one cell outside the first column.
OtherColumnEdits(rs) ==
  UNION {{[rs EXCEPT ![i] = RowWithout(rs[i], col)]} \cup
         {[rs EXCEPT ![i] = RowWith(rs[i], col, v)] : v \in IdValues \cup DateValues} :
         i \in 1..Len(rs), col \in {ColId, ColDate} \ {Columns(rs)[1]}}

\* C10: validity depends only on the first column: a dataset that differs
\* only outside the first column has the same validity score.
C10_ValidityFirstColumnOnly ==
  Scored /\ Columns(rows) # <<>> =>
    \A other \in OtherColumnEdits(rows) :
      computeValidity(other) = dimensions.props["validity"]

C10_Witness ==
  /\ Scored
  /\ Len(rows) = 2
  /\ Len(Columns(rows)) = 2
  /\ NonEmptyCell(rows[1], Columns(rows)[1])
  /\ ~NonEmptyCell(rows[1], Columns(rows)[2])
  /\ ~HasKey(rows[2], Columns(rows)[1])
  /\ NonEmptyCell(rows[2], Columns(rows)[2])
  /\ dimensions.props["validity"] = Whole(50)

\* round(n / d) with halves rounded up, for integers n >= 0 and d > 0.
RoundHalfUp(n, d) == (2 * n + d) \div (2 * d)

\* The (row, column) pairs whose value is defined and has a non-empty trimmed
\* string form.
FilledCells(rs) ==
  {<<i, j>> \in (1..Len(rs)) \X (1..Len(Columns(rs))) :
     \E h \in 1..Len(rs[i]) :
       /\ rs[i][h][1] = Columns(rs)[j]
       /\ \E m \in 1..Len(rs[i][h][2]) : rs[i][h][2][m] # " "}

FilledRows(rs, col) == {i \in 1..Len(rs) : \E j \in 1..Len(Columns(rs)) :
                          Columns(rs)[j] = col /\ <<i, j>> \in FilledCells(rs)}

DistinctIn(rs, col) == {Trim(Lookup(rs[i], col)) : i \in FilledRows(rs, col)}

\* u_col as the fraction num / den: 100 * distinct / non-empty, or 100 / 1.
UNum(rs, col) ==
  IF FilledRows(rs, col) = {} THEN 100 ELSE 100 * Cardinality(DistinctIn(rs, col))

UDen(rs, col) ==
  IF FilledRows(rs, col) = {} THEN 1 ELSE Cardinality(FilledRows(rs, col))

RECURSIVE DenProduct(_, _)
DenProduct(rs, cols) ==
  IF cols = <<>> THEN 1 ELSE UDen(rs, Head(cols)) * DenProduct(rs, Tail(cols))

\* The sum of the u_col, over the common denominator DenProduct(rs, cols).
RECURSIVE NumSum(_, _)
NumSum(rs, cols) ==
  IF cols = <<>> THEN 0
  ELSE UNum(rs, Head(cols)) * DenProduct(rs, Tail(cols))
       + UDen(rs, Head(cols)) * NumSum(rs, Tail(cols))

MeanUniqueness(rs) ==
  RoundHalfUp(NumSum(rs, Columns(rs)), DenProduct(rs, Columns(rs)) * Len(Columns(rs)))

AllColumnNames(rs) == UNION {{rs[i][j][1] : j \in 1..Len(rs[i])} : i \in 1..Len(rs)}

\* C13: computeTimeliness returns exactly 50 whenever no column name of the
\* dataset, lower-cased, contains one of the six keywords, whatever the row
\* values are (values that parse as dates included).
C13_NoKeywordColumnIsNeutral ==
  Scored /\ (\A name \in AllColumnNames(rows) : ~IsDateColumnName(name)) =>
    dimensions.props["timeliness"] = Whole(50)

\* A column named Stamp holding a parsable date, and no keyword column.
C13_Witness ==
  /\ Scored
  /\ Columns(rows) = <<ColStamp, ColId>>
  /\ IsNum(DateParse(Lookup(rows[1], ColStamp)))
  /\ IsNum(DateParse(Lookup(rows[1], ColId)))
  /\ dimensions.props["timeliness"] = Whole(50)

\* The sum of the scores of obj, which are whole numbers.
RECURSIVE ScoreSum(_, _)
ScoreSum(obj, keys) ==
  IF keys = {} THEN 0
  ELSE LET key == CHOOSE h \in keys : TRUE
       IN  obj[key].n + ScoreSum(obj, keys \ {key})

\* C14: calculateDQS returns the rounded arithmetic mean of the scores that
\* are defined (timeliness only when defined), with no weights, and 0 when no
\* score is defined.
C14_UnweightedMean ==
  pc = "engine_done" =>
    LET defined == DOMAIN result.dimensions
    IN  result.DQS =
          IF defined = {} THEN Whole(0)
          ELSE Whole(RoundHalfUp(ScoreSum(result.dimensions, defined),
                                 Cardinality(defined)))

\* Timeliness undefined and the four others with mean 25.5, rounded to 26.
C14_Witness ==
  /\ pc = "engine_done"
  /\ DOMAIN result.dimensions = DimKeys \ {"timeliness"}
  /\ ScoreSum(result.dimensions, DOMAIN result.dimensions) = 102
  /\ result.DQS = Whole(26)

\* The environments in which the claim names the fallback as the result.
WellFormedCount(recommendations) ==
  Cardinality({i \in 1..Len(recommendations) : ~RecThrows(recommendations[i])})

FallbackCase(env) ==
  \/ ~env.apiKey
  \/ env.outcome \in {"throws", "empty", "unparsable"}
  \/ env.outcome = "json" /\ WellFormedCount(env.recommendations) < 3

\* C15: generateExplanation resolves with exactly 3 recommendations, each with
\* a severity in {High, Medium, Low} and an impact in {Compliance, Operations,
\* Analytics}; without an API key, or when Gemini throws, returns no text,
\* returns text that is not JSON, or returns fewer than 3 well-formed
\* recommendations, the result is generateFallbackExplanation(dimensions, DQS).
C15_AlwaysThreeRecommendations ==
  pc = "explained" =>
    /\ explanation.settled = "resolved"
    /\ Len(explanation.recommendations) = 3
    /\ \A i \in 1..Len(explanation.recommendations) :
         /\ explanation.recommendations[i].severity \in validSeverities
         /\ explanation.recommendations[i].impact \in validImpacts
    /\ FallbackCase(gemini) =>
         explanation = [generateFallbackExplanation(dimensions.props, result.DQS)
                          EXCEPT !.settled = "resolved"]

\* Gemini answered with two well-formed recommendations and the two-rule
\* fallback (completeness and a filler) came back instead.
C15_Witness ==
  /\ pc = "explained"
  /\ gemini.outcome = "json"
  /\ Len(gemini.recommendations) = 2
  /\ WellFormedCount(gemini.recommendations) = 2
  /\ explanation.explanation[1] = "fallback"
  /\ explanation.recommendations[1] = Recommendation("Medium", "completeness", "Compliance")
  /\ explanation.recommendations[3] = Recommendation("Low", "monitor", "Operations")

\* The rows sampled by the value test: the first min(10, rowCount).
SampledRows(rs) == 1..(IF Len(rs) < 10 THEN Len(rs) ELSE 10)

ParsesAsDate(row, col) ==
  TrimmedOrEmpty(row, col) # <<>> /\ IsNum(DateParse(TrimmedOrEmpty(row, col)))

\* The positions, in first-row key order, of the columns with a keyword name
\* of which strictly more than half of the sampled values parse as dates.
QualifyingColumns(rs) ==
  {j \in 1..Len(Columns(rs)) :
     /\ IsDateColumnName(Columns(rs)[j])
     /\ 2 * Cardinality({i \in SampledRows(rs) : ParsesAsDate(rs[i], Columns(rs)[j])})
          > Cardinality(SampledRows(rs))}

KeywordColumns(rs) == {j \in 1..Len(Columns(rs)) : IsDateColumnName(Columns(rs)[j])}

\* The name at the least position of a set of column positions, if any.
FirstOf(rs, positions) ==
  IF positions = {} THEN <<>>
  ELSE <<Columns(rs)[CHOOSE j \in positions : \A h \in positions : j <= h]>>

\* The timeliness of a non-empty dataset computed from the named column:
\* the threshold score of the mean age, 50 with no column or no valid date.
TimelinessFrom(rs, name, t) ==
  IF name = <<>> \/ RowAges(rs, name[1], t) = <<>> THEN Whole(50)
  ELSE ScoreForAge(JDiv(JDiv(SumNums(RowAges(rs, name[1], t)), Whole(MinutesPerHour)),
                        Whole(Len(RowAges(rs, name[1], t)))))

\* What POST /analyze reports and scores: the first qualifying column.
EngineUsesFirstQualifying ==
  /\ pc \in {"prepared", "engine_scored", "engine_done"} =>
       /\ metadata.hasDateColumn = (QualifyingColumns(rows) # {})
       /\ metadata.dateColumnName = FirstOf(rows, QualifyingColumns(rows))
  /\ pc = "engine_scored" =>
       IF QualifyingColumns(rows) = {}
         THEN "timeliness" \notin DOMAIN dimensions.props
         ELSE Get(dimensions.props, "timeliness")
                = TimelinessFrom(rows, FirstOf(rows, QualifyingColumns(rows)), now)

\* C16 as stated: timeliness is computed from the first column, in first-row
\* key order, whose lower-cased name contains a keyword and of which strictly
\* more than half of the values of the first min(10, rowCount) rows parse as
\* dates; a keyword column failing the value test is skipped; with no
\* qualifying column none is reported.  Stated of both detectDateColumn with
\* computeScores and computeTimeliness.
C16_FirstQualifyingColumn ==
  /\ EngineUsesFirstQualifying
  /\ Scored =>
       dimensions.props["timeliness"]
         = TimelinessFrom(rows, FirstOf(rows, QualifyingColumns(rows)), now)

\* C16 amended: the first qualifying column is what detectDateColumn reports
\* and computeScores scores; computeTimeliness applies no value test and
\* computes from the first keyword-named column, whatever its values.
C16_ValueTestInDetectorOnly ==
  /\ EngineUsesFirstQualifying
  /\ Scored =>
       dimensions.props["timeliness"]
         = TimelinessFrom(rows, FirstOf(rows, KeywordColumns(rows)), now)

\* Eleven rows whose Date column parses in 6 rows but only in 5 of the 10
\* sampled: Date is skipped and the later Time column is reported and scored.
C16_Witness ==
  /\ pc = "engine_scored"
  /\ Len(rows) = 11
  /\ Columns(rows) = <<ColDate, ColTime>>
  /\ Cardinality({i \in 1..Len(rows) : ParsesAsDate(rows[i], ColDate)}) = 6
  /\ Cardinality({i \in SampledRows(rows) : ParsesAsDate(rows[i], ColDate)}) = 5
  /\ metadata.dateColumnName = <<ColTime>>
  /\ dimensions.props["timeliness"] = Whole(30)

\* C18: every value present in the dimensions object returned by computeDQS
\* is an integer in [0,100], whatever the input object, a timeliness outside
\* [0,100] and non-integer scores included.
C18_ReturnedDimensionsAreScores ==
  Returned => \A key \in DOMAIN result.dimensions : IsScore(result.dimensions[key])

\* A required dimension that is missing, not a number, below 0 or above 100.
InvalidRequired(obj, key) ==
  \/ key \notin DOMAIN obj
  \/ ~IsNum(obj[key])
  \/ JLt(obj[key], Whole(0))
  \/ JGt(obj[key], Whole(100))

\* C19: a required dimension that is missing, non-numeric, below 0 or above
\* 100 contributes as score 0: computeDQS returns the DQS it returns when
\* that dimension is supplied as 0.
C19_InvalidRequiredCountsAsZero ==
  [][pc = "scored" /\ ~dimensions.null =>
       \A key \in DimKeys \ {"timeliness"} :
         InvalidRequired(dimensions.props, key) =>
           result'.DQS
             = computeDQS(Ref(Set(dimensions.props, key, Whole(0))), weights).ret.DQS]_vars

\* Every reordering of the rows of a dataset.
RowPermutations(rs) ==
  {[i \in 1..Len(rs) |-> rs[f[i]]] : f \in Permutations(1..Len(rs))}

OrderFreeKeys == {"completeness", "uniqueness", "consistency", "validity"}

\* C20: for every dataset, rows with different key sets included, and every
\* permutation of its rows, computeAllScores returns the same completeness,
\* uniqueness, consistency and validity as for the original order.
C20_RowOrderIrrelevant ==
  Scored =>
    \A permuted \in RowPermutations(rows) :
      \A key \in OrderFreeKeys :
        computeAllScores(permuted, now)[key] = dimensions.props[key]

\* The rows whose value in the named column is non-empty and parses.
DatedRows(rs, name) == {i \in 1..Len(rs) : ParsesAsDate(rs[i], name)}

\* The sum of the ages, in minutes, of the given rows at time t.
RECURSIVE AgeSum(_, _, _, _)
AgeSum(rs, name, t, indices) ==
  IF indices = {} THEN 0
  ELSE LET i == CHOOSE h \in indices : TRUE
       IN  (t - DateParse(TrimmedOrEmpty(rs[i], name)).n)
             + AgeSum(rs, name, t, indices \ {i})

\* The score of a mean age of total / count minutes, by strict upper bounds
\* in hours: A < b is total < 60 * b * count.
StepScore(total, count) ==
  IF total < 1 * MinutesPerHour * count THEN 100
  ELSE IF total < 6 * MinutesPerHour * count THEN 95
  ELSE IF total < 24 * MinutesPerHour * count THEN 85
  ELSE IF total < 72 * MinutesPerHour * count THEN 70
  ELSE IF total < 168 * MinutesPerHour * count THEN 50
  ELSE 30

ClaimedTimeliness(rs, name, t) ==
  Whole(StepScore(AgeSum(rs, name, t, DatedRows(rs, name)),
                  Cardinality(DatedRows(rs, name))))

C22_NeutralNeverZero ==
  /\ Scored /\ (rows = <<>> \/ (KeywordColumns(rows) # {}
                  /\ DatedRows(rows, FirstOf(rows, KeywordColumns(rows))[1]) = {})) =>
       dimensions.props["timeliness"] = Whole(50)
  /\ pc = "engine_scored" /\ "timeliness" \in DOMAIN dimensions.props
       /\ DatedRows(rows, metadata.dateColumnName[1]) = {} =>
       dimensions.props["timeliness"] = Whole(50)

\* The lengths of the trimmed non-empty values of a column, by row.
LengthAt(rs, col, i) == Len(Trim(Lookup(rs[i], col)))

RECURSIVE LengthSum(_, _, _)
LengthSum(rs, col, indices) ==
  IF indices = {} THEN 0
  ELSE LET i == CHOOSE h \in indices : TRUE
       IN  LengthAt(rs, col, i) + LengthSum(rs, col, indices \ {i})

\* With n values of total length S: the sum over the values of |n * l - S|,
\* which is n * n * D.
RECURSIVE DeviationSum(_, _, _, _, _)
DeviationSum(rs, col, indices, n, S) ==
  IF indices = {} THEN 0
  ELSE LET i == CHOOSE h \in indices : TRUE
       IN  AbsInt(n * LengthAt(rs, col, i) - S) + DeviationSum(rs, col, indices \ {i}, n, S)

\* c_col as the fraction CNum / CDen.  D / max(M, 1) is A / B with
\* A = n * n * D and B = n * max(S, n).
CDen(rs, col) ==
  LET n == Cardinality(FilledRows(rs, col))
      S == LengthSum(rs, col, FilledRows(rs, col))
  IN  IF n <= 1 THEN 1 ELSE n * (IF S > n THEN S ELSE n)

CNum(rs, col) ==
  LET n == Cardinality(FilledRows(rs, col))
      S == LengthSum(rs, col, FilledRows(rs, col))
      A == DeviationSum(rs, col, FilledRows(rs, col), n, S)
  IN  IF n <= 1 THEN 100
      ELSE IF A >= CDen(rs, col) THEN 0
      ELSE 100 * (CDen(rs, col) - A)

RECURSIVE CDenProduct(_, _)
CDenProduct(rs, cols) ==
  IF cols = <<>> THEN 1 ELSE CDen(rs, Head(cols)) * CDenProduct(rs, Tail(cols))

RECURSIVE CNumSum(_, _)
CNumSum(rs, cols) ==
  IF cols = <<>> THEN 0
  ELSE CNum(rs, Head(cols)) * CDenProduct(rs, Tail(cols))
       + CDen(rs, Head(cols)) * CNumSum(rs, Tail(cols))

MeanConsistency(rs) ==
  RoundHalfUp(CNumSum(rs, Columns(rs)), CDenProduct(rs, Columns(rs)) * Len(Columns(rs)))

SameLengths(rs, col) ==
  \A i, h \in FilledRows(rs, col) : LengthAt(rs, col, i) = LengthAt(rs, col, h)

LaterRowEdits(rs) ==
  LET columnSet == {Columns(rs)[j] : j \in 1..Len(Columns(rs))}
      missing == {ic \in (2..Len(rs)) \X {ColId, ColDate} : ~HasKey(rs[ic[1]], ic[2])}
  IN  UNION {{[rs EXCEPT ![ic[1]] = Append(rs[ic[1]], <<ic[2], v>>)] :
                v \in IF ic[2] \in columnSet THEN {<<>>} ELSE IdValues \cup DateValues} :
             ic \in missing}

\* C24: a later row lacking a key of the column set is scored as the same
\* row with that key set to "", and keys found only in rows after the first
\* are ignored: either edit leaves the five scores of computeAllScores as
\* they are.
C24_MissingKeyIsEmpty ==
  Scored => \A edited \in LaterRowEdits(rows) : computeAllScores(edited, now) = dimensions.props

\* The second row has neither key of the first: 2 of 4 cells are filled and
\* completeness is 50, as with {id: "", Date: ""}.
C24_Witness ==
  /\ Scored
  /\ Len(rows) = 2
  /\ Columns(rows) = <<ColId, ColDate>>
  /\ rows[2] = <<>>
  /\ [rows EXCEPT ![2] = <<<<ColId, <<>>>>>>] \in LaterRowEdits(rows)
  /\ dimensions.props["completeness"] = Whole(50)

\* C25: whenever the AnalysisPage holds a non-null explanation, it was
\* generated from the analysis result it holds: an explanation fetched for an
\* earlier result is never stored beside a later one.
C25_ExplanationOfCurrentResult ==
  page.explanation # <<>> =>
    /\ page.analysisResult # <<>>
    /\ page.explanation[1] = ExplanationFor(page.analysisResult[1])

\* An upload of client c finishes in this step with the given status.
UploadAnswered(c, status) ==
  uploads[c].stage = "reading" /\ uploads'[c].stage = "done" /\ uploads'[c].status = status

\* C26: LAST_PROFILE starts as null and changes only on a successful POST
\* /api/dataset, which sets it to that upload's profile; a failed upload (no
\* file, parse errors) leaves it unchanged.  POST /api/score answers 400 "No
\* dataset uploaded yet" exactly when LAST_PROFILE is null and otherwise
\* forwards the profile stored last, whichever client uploaded it.
C26_LastProfileIsLastUpload ==
  /\ LAST_PROFILE = <<>>
  /\ [][/\ LAST_PROFILE' # LAST_PROFILE =>
             \E c \in Clients : UploadAnswered(c, 200)
        /\ \A c \in Clients :
             /\ UploadAnswered(c, 200) =>
                  /\ uploads'[c].profile
                       = <<buildDatasetProfile(uploads[c].file[1].rows,
                                               uploads[c].file[1].headers)>>
                  /\ LAST_PROFILE' = uploads'[c].profile
             /\ UploadAnswered(c, 400) \/ UploadAnswered(c, 500) =>
                  /\ uploads[c].file[1].kind \in {"absent", "malformed"}
                  /\ LAST_PROFILE' = LAST_PROFILE
             /\ uploads[c].stage = "reading" /\ uploads'[c].stage = "done" =>
                  (uploads'[c].status = 200 <=> uploads[c].file[1].kind = "csv")
             /\ scoreCalls[c].stage # "forwarding" /\ scoreCalls'[c].stage = "forwarding" =>
                  LAST_PROFILE # <<>> /\ scoreCalls'[c].profile = LAST_PROFILE
             /\ scoreCalls[c].stage # "forwarding" /\ scoreCalls'[c] # scoreCalls[c]
                  /\ scoreCalls'[c].stage = "done" =>
                  /\ LAST_PROFILE = <<>>
                  /\ scoreCalls'[c].status = 400
                  /\ scoreCalls'[c].error = "No dataset uploaded yet"
             /\ scoreCalls[c].stage = "forwarding" /\ scoreCalls'[c].stage = "done" =>
                  /\ scoreCalls'[c].status # 400
                  /\ scoreCalls'[c].profile = scoreCalls[c].profile]_vars

\* Client A uploaded one file, client B another after it, and A's score
\* request forwarded B's profile.
C26_Witness ==
  /\ uploads["A"].stage = "done" /\ uploads["A"].status = 200
  /\ uploads["B"].stage = "done" /\ uploads["B"].status = 200
  /\ uploads["A"].profile # uploads["B"].profile
  /\ LAST_PROFILE = uploads["B"].profile
  /\ scoreCalls["A"].stage = "done" /\ scoreCalls["A"].status = 200
  /\ scoreCalls["A"].profile = uploads["B"].profile

\* C27: when the dimensions object has no valid timeliness score, computeDQS
\* returns the same DQS whatever weights.timeliness is (absent, 0 or any other
\* hundredth), the four required weights being the same with a positive sum.
C27_TimelinessWeightIrrelevant ==
  (/\ Returned
   /\ ~HasTimeliness(dimensions.props)
   /\ JGt(SumNums([i \in 1..Len(required) |-> Get(weights, required[i])]), Whole(0)))
  => \A w \in HundredthWeights :
       Without(w, "timeliness") = Without(weights, "timeliness")
       => computeDQS64(dimensions, w).ret.DQS = result.DQS

ValidScore(x) == IsNum(x) /\ JGe(x, Whole(0)) /\ JLe(x, Whole(100))

\* The scores a score s is raised to: one point more, and 100.
RaisedFrom(s) ==
  {v \in {JAdd(s, Whole(1)), Whole(100)} : JGt(v, s) /\ JLe(v, Whole(100))}

MonotoneCase ==
  /\ Returned
  /\ \A key \in DOMAIN dimensions.props : ValidScore(dimensions.props[key])
  /\ DOMAIN weights = DimKeys
  /\ \A key \in DimKeys : IsNum(weights[key]) /\ weights[key].n >= 0

\* C28: with five non-negative weights, raising one score of a dimensions
\* object of valid scores, the others unchanged, never lowers the DQS that
\* computeDQS returns.
C28_MonotoneInEachScore ==
  MonotoneCase
  => \A key \in DOMAIN dimensions.props :
       \A v \in RaisedFrom(dimensions.props[key]) :
         JGe(computeDQS64(Ref(Set(dimensions.props, key, v)), weights).ret.DQS,
             result.DQS)

\* Default weights, scores 80, 60, 40, 20 and 50: raising a score raises the DQS.
C28_Witness ==
  /\ MonotoneCase
  /\ weights = DEFAULT_WEIGHTS
  /\ dimensions.props = Set(ScoresOf(80, 60, 40, 20), "timeliness", Whole(50))
  /\ \E key \in DOMAIN dimensions.props :
       JGt(computeDQS64(Ref(Set(dimensions.props, key, Whole(100))), weights).ret.DQS,
           result.DQS)

ClockFreeKeys == DimKeys \ {"timeliness"}

\* C29: when the same rows are scored again at a later reading of the clock,
\* timeliness is at most what it was and the other four scores are unchanged.
C29_TimelinessNeverRises ==
  [][Scored
     => /\ JLe(dimensions'.props["timeliness"], dimensions.props["timeliness"])
        /\ \A key \in ClockFreeKeys :
             dimensions'.props[key] = dimensions.props[key]]_vars

\* Scored as 100 at an earlier reading, and the clock now at a reading where
\* the same rows score 30.
C29_Witness ==
  /\ Scored
  /\ dimensions.props["timeliness"] = Whole(100)
  /\ computeTimeliness(rows, now) = Whole(30)

\* The four row-based calculators of scoring-engine.ts on the keys of the
\* first row.
EngineRowScores(rs) ==
  LET columns == ObjectKeys(rs[1])
  IN  [key \in ClockFreeKeys |->
         CASE key = "completeness" -> calculateCompleteness(rs, columns)
           [] key = "uniqueness" -> calculateUniqueness(rs, columns)
           [] key = "consistency" -> calculateConsistency(rs, columns)
           [] key = "validity" -> calculateValidity(rs, columns)]

\* C30: on a dataset of at least one row, the calculators of
\* scoring-engine.ts, given the keys of the first row as columns, return the
\* completeness, uniqueness, consistency and validity that
\* data-quality-functions.js computes.
C30_ImplementationsAgree ==
  (Scored /\ Len(rows) >= 1)
  => \A key \in ClockFreeKeys : EngineRowScores(rows)[key] = dimensions.props[key]

\* Two rows, the second without the Date key of the first: 3 of 4 cells filled.
C30_Witness ==
  /\ Scored
  /\ Len(rows) = 2
  /\ ObjectKeys(rows[1]) = <<ColId, ColDate>>
  /\ ~HasKey(rows[2], ColDate)
  /\ dimensions.props["completeness"] = Whole(75)
  /\ EngineRowScores(rows)["completeness"] = Whole(75)

====
